---- MODULE Spec2Model ----
(***************************************************************************)
(* Model of the debt-zero-agent fix workflow (debt_zero_agent/agent) and   *)
(* of the pure helpers it relies on (debt_zero_agent/tools).               *)
(*                                                                         *)
(* File content is a sequence of units.  In the specification of the pure  *)
(* edit function the units are characters; in the workflow the units are   *)
(* whole lines (a unit stands for the line and its newline), and the edits *)
(* a model reply carries replace blocks of whole lines.                    *)
(***************************************************************************)
EXTENDS Integers, Sequences, FiniteSets, TLC

VARIABLES
    \* ---- AgentState (agent/state.py) and the world around it ----
    issues,               \* state["issues"]: sequence of issue records
    dry_run,              \* state["dry_run"]
    max_retries,          \* state["max_retries"]
    thresholds,           \* state["max_lines_changed"], state["max_change_ratio"]
    current_issue_index,  \* state["current_issue_index"] (0-based, as in the code)
    current_issue,        \* state["current_issue"]: 0-based position in issues, or NoIssue
    retry_count,          \* state["retry_count"]
    messages,             \* state["messages"]
    successful_fixes,     \* state["successful_fixes"]
    failed_fixes,         \* state["failed_fixes"]
    file_cache,           \* state["file_cache"]: the cached paths -> content
    temp_modified_files,  \* state["_temp_modified_files"]: the touched paths -> content
    validation_passed,    \* state["_validation_passed"] (absent reads as FALSE)
    disk,                 \* content of the files of the repository on disk
    pc,                   \* the node the graph runs next
    \* ---- observation of the run (history, not program state) ----
    last,                 \* what the node that ran last did
    hist,                 \* what the rounds of the issue selected last did
    \* ---- one call of a pure function ----
    call,                 \* the arguments
    ret                   \* the result

vars == <<issues, dry_run, max_retries, thresholds, current_issue_index,
          current_issue, retry_count, messages, successful_fixes, failed_fixes,
          file_cache, temp_modified_files, validation_passed, disk, pc,
          last, hist, call, ret>>

wfvars == <<issues, dry_run, max_retries, thresholds, current_issue_index,
            current_issue, retry_count, messages, successful_fixes, failed_fixes,
            file_cache, temp_modified_files, validation_passed, disk, pc,
            last, hist>>

(***************************************************************************)
(* Bounds of the model                                                     *)
(***************************************************************************)
MaxStrLen == 3        \* longest string given to apply_edit in SpecEdit
MaxIssues == 2        \* longest issue list
MaxRetriesBound == 2  \* largest configured max_retries
MaxEdits == 1         \* longest edit list in one model reply

Chars == {"a", "b"}

RECURSIVE StringsUpTo(_)
StringsUpTo(n) ==
    IF n = 0 THEN {<<>>}
    ELSE LET shorter == StringsUpTo(n - 1)
         IN  shorter \cup {Append(s, c) : s \in {t \in shorter : Len(t) = n - 1}, c \in Chars}

(***************************************************************************)
(* tools/file_writer.py : apply_edit                                       *)
(***************************************************************************)
MatchAt(s, sub, i) ==
    /\ i >= 1
    /\ i + Len(sub) - 1 <= Len(s)
    /\ SubSeq(s, i, i + Len(sub) - 1) = sub

\* str.count: the number of NON-overlapping occurrences, scanning left to
\* right; the empty string is counted once before every character and once
\* at the end.
RECURSIVE CountFrom(_, _, _)
CountFrom(s, sub, i) ==
    IF i + Len(sub) - 1 > Len(s) THEN 0
    ELSE IF MatchAt(s, sub, i) THEN 1 + CountFrom(s, sub, i + Len(sub))
    ELSE CountFrom(s, sub, i + 1)

str_count(s, sub) ==
    IF sub = <<>> THEN Len(s) + 1 ELSE CountFrom(s, sub, 1)

\* str.find: the lowest start position of sub in s, 0 when there is none
\* (positions are 1-based here).
str_find(s, sub) ==
    IF \E i \in 1..(Len(s) + 1) : MatchAt(s, sub, i)
    THEN CHOOSE i \in 1..(Len(s) + 1) :
            /\ MatchAt(s, sub, i)
            /\ \A j \in 1..(i - 1) : ~MatchAt(s, sub, j)
    ELSE 0

\* a replacement that loses what follows the occurrence
str_replace_first_truncating(s, old, new) ==
    LET p == str_find(s, old)
    IN  IF p = 0 THEN s ELSE SubSeq(s, 1, p - 1) \o new

\* str.replace(old, new, 1): the leftmost occurrence replaced
str_replace_first(s, old, new) ==
    LET p == str_find(s, old)
    IN  IF p = 0 THEN s
        ELSE SubSeq(s, 1, p - 1) \o new \o SubSeq(s, p + Len(old), Len(s))

apply_edit(original_content, old_code, new_code) ==
    LET count == str_count(original_content, old_code)
    IN  IF count = 0
        THEN [ok |-> FALSE, error |-> "not_found"]
        ELSE IF count > 1
        THEN [ok |-> FALSE, error |-> "ambiguous"]
        ELSE [ok |-> TRUE, content |-> str_replace_first(original_content, old_code, new_code)]


(***************************************************************************)
(* The repository the workflow runs on, and the model's replies            *)
(***************************************************************************)
PyA == [stem |-> "a", ext |-> ".py"]
PyB == [stem |-> "b", ext |-> ".py"]
TxtN == [stem |-> "n", ext |-> ".txt"]
Files == {PyA, PyB, TxtN}

\* A path no file of the repository has: read_file raises FileNotFoundError.
Gone == [stem |-> "g", ext |-> ".py"]

\* A line unit "X" is a line the parser reports an ERROR node for.
InitialDisk ==
    [f \in Files |-> IF f = PyA THEN <<"a", "b", "b">> ELSE <<"a">>]

NoIssue == -1       \* current_issue is None
AbsentKey == [absent |-> TRUE]   \* a key the reply object does not have

\* The files the issues of a run are reported in.
IssueFiles == {PyA}

IssueLists ==
    UNION {[1..n -> IssueFiles] : n \in 0..MaxIssues}

\* state["max_lines_changed"] and state["max_change_ratio"], the ratio as a
\* fraction: the defaults of cli.py and two tighter settings.
DefaultThresholds == [max_lines_changed |-> 30, ratio_num |-> 1, ratio_den |-> 10]

ThresholdChoices ==
    { DefaultThresholds,
      [max_lines_changed |-> 2, ratio_num |-> 1, ratio_den |-> 1],
      [max_lines_changed |-> 1, ratio_num |-> 1, ratio_den |-> 1] }

\* The setting of the workflow runs: in the files of InitialDisk it lets one
\* added line pass and rejects a replaced line of a one-line file.
RunThresholds == {[max_lines_changed |-> 2, ratio_num |-> 1, ratio_den |-> 1]}

EditTargets == {AbsentKey, PyB, TxtN}

\* The edits a reply can carry: a line "a" replaced by a line that does not
\* parse or by two lines, in the issue's file or in a named file; an entry
\* without old_code and one without new_code; an old_code no file contains
\* and one the issue's file contains twice; an edit that names a file the
\* repository does not have.
Edits ==
    [file : EditTargets, old_code : {<<"a">>}, new_code : {<<"X">>, <<"a", "a">>}]
    \cup { [file |-> Gone, old_code |-> <<"a">>, new_code |-> <<"a", "a">>],
           [file |-> AbsentKey, old_code |-> <<>>, new_code |-> <<"a">>],
           [file |-> AbsentKey, old_code |-> <<"a">>, new_code |-> <<>>],
           [file |-> AbsentKey, old_code |-> <<"c">>, new_code |-> <<"a">>],
           [file |-> AbsentKey, old_code |-> <<"b">>, new_code |-> <<"a">>] }

RECURSIVE EditListsUpTo(_)
EditListsUpTo(n) ==
    IF n = 0 THEN {<<>>}
    ELSE LET shorter == EditListsUpTo(n - 1)
         IN  shorter \cup {Append(l, e) : l \in {t \in shorter : Len(t) = n - 1}, e \in Edits}

\* The top-level old_code / new_code keys of the legacy reply shape.
NoFlat == [has_old |-> FALSE, old_code |-> <<>>, has_new |-> FALSE, new_code |-> <<>>]

FlatChoices ==
    { NoFlat,
      [has_old |-> TRUE, old_code |-> <<"a">>, has_new |-> TRUE, new_code |-> <<"a", "a">>],
      [has_old |-> TRUE, old_code |-> <<"a">>, has_new |-> FALSE, new_code |-> <<>>] }

\* What llm.invoke can return in apply_fix: text that is not JSON, JSON that
\* is not an object, or an object with an "edits" list and top-level keys.
Replies ==
    {[kind |-> "not_json"], [kind |-> "not_object"]}
    \cup {[kind |-> "object", edits |-> l, flat |-> NoFlat] : l \in EditListsUpTo(MaxEdits)}
    \cup {[kind |-> "object", edits |-> l, flat |-> fl] :
             l \in EditListsUpTo(1), fl \in FlatChoices \ {NoFlat}}

(***************************************************************************)
(* validation/tree_sitter.py                                               *)
(***************************************************************************)
NoLanguage == "None"

extension_map ==
    [e \in {".py", ".js", ".ts", ".java", ".cpp", ".c", ".go", ".rs", ".rb", ".php"} |->
        CASE e = ".py" -> "python"
          [] e = ".js" -> "javascript"
          [] e = ".ts" -> "typescript"
          [] e = ".java" -> "java"
          [] e = ".cpp" -> "cpp"
          [] e = ".c" -> "c"
          [] e = ".go" -> "go"
          [] e = ".rs" -> "rust"
          [] e = ".rb" -> "ruby"
          [] e = ".php" -> "php"]

\* a detection that takes a file of unknown extension for Python
detect_language_defaulting(file_path) ==
    IF file_path.ext \in DOMAIN extension_map
    THEN extension_map[file_path.ext]
    ELSE "python"

detect_language_from_extension(file_path) ==
    IF file_path.ext \in DOMAIN extension_map
    THEN extension_map[file_path.ext]
    ELSE NoLanguage

\* validate_syntax: one error per ERROR node of the tree; the result is the
\* list of the lines that carry one.
RECURSIVE find_errors(_, _)
find_errors(code, i) ==
    IF i > Len(code) THEN <<>>
    ELSE (IF code[i] = "X" THEN <<i>> ELSE <<>>) \o find_errors(code, i + 1)

validate_syntax(code, language) ==
    LET errors == find_errors(code, 1)
    IN  [valid |-> Len(errors) = 0, errors |-> errors]

(***************************************************************************)
(* tools/diff_tool.py : generate_diff_stats                                *)
(***************************************************************************)
Max(a, b) == IF a >= b THEN a ELSE b

\* Length of a longest common subsequence of lines: what `diff -u` keeps.
RECURSIVE LCS(_, _)
LCS(x, y) ==
    IF x = <<>> \/ y = <<>> THEN 0
    ELSE IF Head(x) = Head(y) THEN 1 + LCS(Tail(x), Tail(y))
    ELSE Max(LCS(Tail(x), y), LCS(x, Tail(y)))

\* The '+' and '-' lines of the unified diff (no line unit of the workflow
\* begins with "++" or "--", so none is taken for a header line).
generate_diff_stats(original, modified) ==
    LET additions == Len(modified) - LCS(original, modified)
        deletions == Len(original) - LCS(original, modified)
    IN  [additions |-> additions,
         deletions |-> deletions,
         total_changes |-> additions + deletions,
         original_lines |-> Len(original),
         modified_lines |-> Len(modified)]


(***************************************************************************)
(* agent/nodes.py : apply_fix, the parsing of the reply and the edit loop  *)
(***************************************************************************)
Put(m, k, v) == [x \in (DOMAIN m) \cup {k} |-> IF x = k THEN v ELSE m[x]]

EmptyMap == [x \in {} |-> <<>>]

\* a parsing that takes the top-level old_code / new_code whenever present
reply_edits_preferring_flat(reply, file_path) ==
    IF reply.kind = "not_json"
    THEN [status |-> "recoverable", error |-> "json_decode"]
    ELSE IF reply.kind = "not_object"
    THEN [status |-> "raised", error |-> "AttributeError"]
    ELSE IF reply.flat.has_old
    THEN IF ~reply.flat.has_new
         THEN [status |-> "raised", error |-> "KeyError"]
         ELSE [status |-> "ok",
               edits |-> << [file |-> file_path,
                             old_code |-> reply.flat.old_code,
                             new_code |-> reply.flat.new_code] >>]
    ELSE IF reply.edits = <<>>
    THEN [status |-> "recoverable", error |-> "no_edits"]
    ELSE [status |-> "ok", edits |-> reply.edits]

\* nodes.py 243-254: the edit list of a reply object.
\*   "raised"      : an exception the except clause of apply_fix does not catch
\*                   (FileNotFoundError of read_file is one: it is an OSError)
\*   "recoverable" : JSONDecodeError, ValueError or EditError
reply_edits(reply, file_path) ==
    IF reply.kind = "not_json"
    THEN [status |-> "recoverable", error |-> "json_decode"]
    ELSE IF reply.kind = "not_object"
    THEN [status |-> "raised", error |-> "AttributeError"]
    ELSE IF reply.edits = <<>> /\ reply.flat.has_old
    THEN IF ~reply.flat.has_new
         THEN [status |-> "raised", error |-> "KeyError"]
         ELSE [status |-> "ok",
               edits |-> << [file |-> file_path,
                             old_code |-> reply.flat.old_code,
                             new_code |-> reply.flat.new_code] >>]
    ELSE IF reply.edits = <<>>
    THEN [status |-> "recoverable", error |-> "no_edits"]
    ELSE [status |-> "ok", edits |-> reply.edits]

\* an edit loop that searches every edit in the content the file had before
\* the attempt
RECURSIVE apply_edits_against_original(_, _, _, _, _, _)
apply_edits_against_original(edits, i, modified_files, file_path, cache, dsk) ==
    IF i > Len(edits)
    THEN [status |-> "ok", modified_files |-> modified_files]
    ELSE
        LET edit == edits[i]
            target_path == IF edit.file = AbsentKey THEN file_path ELSE edit.file
        IN  IF edit.old_code = <<>> \/ edit.new_code = <<>>
            THEN [status |-> "recoverable", error |-> "missing_code"]
            ELSE IF /\ target_path \notin DOMAIN cache
                    /\ target_path \notin DOMAIN dsk
            THEN [status |-> "raised", error |-> "FileNotFoundError"]
            ELSE
                LET before == IF target_path \in DOMAIN cache
                              THEN cache[target_path] ELSE dsk[target_path]
                    res == apply_edit(before, edit.old_code, edit.new_code)
                IN  IF ~res.ok
                    THEN [status |-> "recoverable", error |-> res.error]
                    ELSE apply_edits_against_original(edits, i + 1,
                                     Put(modified_files, target_path, res.content),
                                     file_path, cache, dsk)

\* nodes.py 266-295: the edits applied in list order to the accumulating map.
RECURSIVE apply_edits(_, _, _, _, _, _)
apply_edits(edits, i, modified_files, file_path, cache, dsk) ==
    IF i > Len(edits)
    THEN [status |-> "ok", modified_files |-> modified_files]
    ELSE
        LET edit == edits[i]
            target_path == IF edit.file = AbsentKey THEN file_path ELSE edit.file
        IN  IF edit.old_code = <<>> \/ edit.new_code = <<>>
            THEN [status |-> "recoverable", error |-> "missing_code"]
            ELSE IF /\ target_path \notin DOMAIN modified_files
                    /\ target_path \notin DOMAIN cache
                    /\ target_path \notin DOMAIN dsk
            THEN [status |-> "raised", error |-> "FileNotFoundError"]
            ELSE
                LET loaded ==
                        IF target_path \in DOMAIN modified_files
                        THEN modified_files
                        ELSE IF target_path \in DOMAIN cache
                        THEN Put(modified_files, target_path, cache[target_path])
                        ELSE Put(modified_files, target_path, dsk[target_path])
                    res == apply_edit(loaded[target_path], edit.old_code, edit.new_code)
                IN  IF ~res.ok
                    THEN [status |-> "recoverable", error |-> res.error]
                    ELSE apply_edits(edits, i + 1,
                                     Put(loaded, target_path, res.content),
                                     file_path, cache, dsk)

\* nodes.py 231-301: the try block of apply_fix.
try_edits(reply, file_path, original_content, cache, dsk) ==
    LET parsed == reply_edits(reply, file_path)
    IN  IF parsed.status # "ok"
        THEN parsed
        ELSE apply_edits(parsed.edits, 1, Put(EmptyMap, file_path, original_content),
                         file_path, cache, dsk)

FailedFix(issue, error, iterations) ==
    [issue_key |-> issue.key, file_path |-> issue.file,
     status |-> "validation_error", error_message |-> error, iterations |-> iterations]

Msg(kind, issue) == [kind |-> kind, issue |-> issue]

(***************************************************************************)
(* agent/graph.py : the routing functions                                  *)
(***************************************************************************)
should_continue(cur) ==
    IF cur = NoIssue THEN "finalize" ELSE "analyze"

\* a routing that retries only after a validation that passed
should_retry_on_pass(rc, mr, passed) ==
    IF rc >= mr THEN "select_next"
    ELSE IF passed THEN "apply"
    ELSE "select_next"

\* a routing that gives up one rejection late
should_retry_late(rc, mr, passed) ==
    IF rc > mr THEN "select_next"
    ELSE IF passed THEN "select_next"
    ELSE "apply"

should_retry(rc, mr, passed) ==
    IF rc >= mr THEN "select_next"
    ELSE IF passed THEN "select_next"
    ELSE "apply"


(***************************************************************************)
(* agent/nodes.py : validate_fix, the two gates                            *)
(***************************************************************************)
\* a syntax gate that looks at the issue's own file only
validation_errors_primary_only(modified_files) ==
    { path \in DOMAIN modified_files :
        /\ path = issues[current_issue + 1].file
        /\ detect_language_from_extension(path) # NoLanguage
        /\ ~validate_syntax(modified_files[path],
                            detect_language_from_extension(path)).valid }

\* nodes.py 367-372: the touched files whose new content does not parse.
validation_errors(modified_files) ==
    { path \in DOMAIN modified_files :
        /\ detect_language_from_extension(path) # NoLanguage
        /\ ~validate_syntax(modified_files[path],
                            detect_language_from_extension(path)).valid }

\* nodes.py 421-427: the baseline a touched file is compared with.
diff_baseline(path, cache, dsk) ==
    IF path \in DOMAIN cache /\ cache[path] # <<>>
    THEN cache[path]
    ELSE dsk[path]

file_stats(modified_files, cache, dsk) ==
    [path \in DOMAIN modified_files |->
        generate_diff_stats(diff_baseline(path, cache, dsk), modified_files[path])]

RECURSIVE sum_changes(_, _)
sum_changes(stats, paths) ==
    IF paths = {} THEN 0
    ELSE LET path == CHOOSE x \in paths : TRUE
         IN  stats[path].additions + stats[path].deletions
             + sum_changes(stats, paths \ {path})

\* nodes.py 430
total_lines_changed(stats) == sum_changes(stats, DOMAIN stats)

\* a ratio test that also rejects a ratio equal to the threshold
ratio_reaches(st, th) ==
    (st.additions + st.deletions) * th.ratio_den
        >= th.ratio_num * Max(st.original_lines, 1)

\* nodes.py 432-435: ratio > max_change_ratio_threshold, the threshold being
\* the fraction ratio_num / ratio_den
ratio_exceeds(st, th) ==
    (st.additions + st.deletions) * th.ratio_den
        > th.ratio_num * Max(st.original_lines, 1)

max_ratio_exceeded(stats, th) ==
    \E path \in DOMAIN stats : ratio_exceeds(stats[path], th)

\* nodes.py 448
excessive_changes(stats, th) ==
    \/ total_lines_changed(stats) > th.max_lines_changed
    \/ max_ratio_exceeded(stats, th)


(***************************************************************************)
(* The workflow: cli.py builds the initial state, graph.py runs the nodes  *)
(***************************************************************************)
Observed(node, issue, outcome, stale, round_incs) ==
    [node |-> node, issue |-> issue, outcome |-> outcome,
     stale |-> stale, round_incs |-> round_incs]

NoHistory == [applies |-> 0, kinds |-> {}, advances |-> 0, records |-> 0]

\* The history of the selected issue after one more step on it.
Noted(is_apply, kind, advanced, recorded) ==
    [applies |-> hist.applies + (IF is_apply THEN 1 ELSE 0),
     kinds |-> hist.kinds \cup {kind},
     advances |-> hist.advances + advanced,
     records |-> hist.records + recorded]

Init ==
    /\ issues \in {[i \in 1..Len(l) |-> [key |-> i - 1, file |-> l[i]]] : l \in IssueLists}
    /\ dry_run \in BOOLEAN
    /\ max_retries \in 0..MaxRetriesBound
    /\ thresholds \in RunThresholds
    /\ current_issue_index = 0
    /\ current_issue = NoIssue
    /\ retry_count = 0
    /\ messages = <<>>
    /\ successful_fixes = <<>>
    /\ failed_fixes = <<>>
    /\ file_cache = EmptyMap
    /\ temp_modified_files = EmptyMap
    /\ validation_passed = FALSE
    /\ disk = InitialDisk
    /\ pc = "select_next"
    /\ last = Observed("start", NoIssue, "none", FALSE, 0)
    /\ hist = NoHistory
    /\ call = [fn |-> "none"]
    /\ ret = [fn |-> "none"]

\* a selection that keeps the retry counter of the issue before
select_next_issue_keeping_retries ==
    /\ pc = "select_next"
    /\ IF current_issue_index >= Len(issues)
       THEN /\ current_issue' = NoIssue
            /\ retry_count' = retry_count
            /\ last' = Observed("select_next", NoIssue, "none", FALSE, 0)
            /\ hist' = hist
       ELSE /\ current_issue' = current_issue_index
            /\ retry_count' = retry_count
            /\ last' = Observed("select_next", current_issue_index, "selected", FALSE, 0)
            /\ hist' = NoHistory
    /\ pc' = should_continue(current_issue')
    /\ UNCHANGED <<issues, dry_run, max_retries, thresholds, current_issue_index,
                   messages, successful_fixes, failed_fixes, file_cache,
                   temp_modified_files, validation_passed, disk, call, ret>>

\* nodes.py 49-64 and graph.py 15-23
select_next_issue ==
    /\ pc = "select_next"
    /\ IF current_issue_index >= Len(issues)
       THEN /\ current_issue' = NoIssue
            /\ retry_count' = retry_count
            /\ last' = Observed("select_next", NoIssue, "none", FALSE, 0)
            /\ hist' = hist
       ELSE /\ current_issue' = current_issue_index
            /\ retry_count' = 0
            /\ last' = Observed("select_next", current_issue_index, "selected", FALSE, 0)
            /\ hist' = NoHistory
    /\ pc' = should_continue(current_issue')
    /\ UNCHANGED <<issues, dry_run, max_retries, thresholds, current_issue_index,
                   messages, successful_fixes, failed_fixes, file_cache,
                   temp_modified_files, validation_passed, disk, call, ret>>

\* nodes.py 134-147 and 99-129: what the two lookups of analyze_issue left in
\* the prompt.  Both run inside a try block whose except clause swallows the
\* exception; a failed lookup leaves its part of the prompt at the default.
analysis_outcome(rule_found, search_ok) ==
    CASE rule_found /\ search_ok -> "analyzed"
      [] rule_found /\ ~search_ok -> "analyzed_without_references"
      [] ~rule_found /\ search_ok -> "analyzed_without_rule"
      [] OTHER -> "analyzed_without_both"

\* an analysis that lets the exception of the rule lookup through
analyze_issue_failing_on_lookup ==
    /\ pc = "analyze"
    /\ IF current_issue = NoIssue
       THEN UNCHANGED <<file_cache, messages>>
       ELSE LET file_path == issues[current_issue + 1].file
            IN  /\ file_cache' = IF file_path \in DOMAIN file_cache
                                 THEN file_cache
                                 ELSE Put(file_cache, file_path, disk[file_path])
                /\ messages' = messages \o << Msg("analysis_prompt", current_issue),
                                              Msg("analysis", current_issue) >>
    /\ \E rule_found \in BOOLEAN, search_ok \in BOOLEAN :
          /\ last' = Observed("analyze", current_issue,
                              analysis_outcome(rule_found, search_ok), FALSE, 0)
          /\ pc' = IF rule_found THEN "apply" ELSE "crashed"
    /\ UNCHANGED <<issues, dry_run, max_retries, thresholds, current_issue_index,
                   current_issue, retry_count, successful_fixes, failed_fixes,
                   temp_modified_files, validation_passed, disk, hist, call, ret>>

\* nodes.py 67-177; the edge analyze -> apply of graph.py 72.  The rule lookup
\* and the cross-reference search each succeed or fail.  read_file (nodes.py
\* 88-91) is called outside any try block: for a path that is not in the
\* cache and not on disk its FileNotFoundError leaves the node.
analyze_issue ==
    /\ pc = "analyze"
    /\ IF /\ current_issue # NoIssue
          /\ issues[current_issue + 1].file \notin DOMAIN file_cache
          /\ issues[current_issue + 1].file \notin DOMAIN disk
       THEN /\ pc' = "crashed"
            /\ last' = Observed("analyze", current_issue, "raised_io", FALSE, 0)
            /\ UNCHANGED <<file_cache, messages>>
       ELSE /\ IF current_issue = NoIssue
               THEN UNCHANGED <<file_cache, messages>>
               ELSE LET file_path == issues[current_issue + 1].file
                    IN  /\ file_cache' = IF file_path \in DOMAIN file_cache
                                         THEN file_cache
                                         ELSE Put(file_cache, file_path, disk[file_path])
                        /\ messages' = messages \o << Msg("analysis_prompt", current_issue),
                                                      Msg("analysis", current_issue) >>
            /\ \E rule_found \in BOOLEAN, search_ok \in BOOLEAN :
                  last' = Observed("analyze", current_issue,
                                   analysis_outcome(rule_found, search_ok), FALSE, 0)
            /\ pc' = "apply"
    /\ UNCHANGED <<issues, dry_run, max_retries, thresholds, current_issue_index,
                   current_issue, retry_count, successful_fixes, failed_fixes,
                   temp_modified_files, validation_passed, disk, hist, call, ret>>

\* nodes.py 180-340 for one reply of the model; the edge apply -> validate of
\* graph.py 73.  The first read_file (nodes.py 200-203) is outside the try
\* block.
apply_fix_with(reply) ==
    /\ pc = "apply"
    /\ current_issue # NoIssue
    /\ LET issue == issues[current_issue + 1]
           file_path == issue.file
       IN  IF file_path \notin DOMAIN file_cache /\ file_path \notin DOMAIN disk
           THEN /\ pc' = "crashed"
                /\ last' = Observed("apply", current_issue, "raised_io", FALSE, 0)
                /\ hist' = Noted(TRUE, "raised", 0, 0)
                /\ UNCHANGED <<file_cache, retry_count, failed_fixes, current_issue_index,
                               messages, temp_modified_files>>
           ELSE
             LET cache == IF file_path \in DOMAIN file_cache
                          THEN file_cache
                          ELSE Put(file_cache, file_path, disk[file_path])
                 original_content == cache[file_path]
                 res == try_edits(reply, file_path, original_content, cache, disk)
             IN  /\ file_cache' = cache
                 /\ CASE res.status = "raised" ->
                           /\ pc' = "crashed"
                           /\ last' = Observed("apply", current_issue,
                                               IF res.error = "FileNotFoundError"
                                               THEN "raised_io" ELSE "raised",
                                               FALSE, 0)
                           /\ hist' = Noted(TRUE, "raised", 0, 0)
                           /\ UNCHANGED <<retry_count, failed_fixes, current_issue_index,
                                          messages, temp_modified_files>>
                      [] res.status = "recoverable" ->
                           /\ retry_count' = retry_count + 1
                           /\ IF retry_count' >= max_retries
                              THEN /\ failed_fixes' = Append(failed_fixes,
                                          FailedFix(issue, "edit", retry_count'))
                                   /\ current_issue_index' = current_issue_index + 1
                                   /\ messages' = messages
                                   /\ hist' = Noted(TRUE, "apply_failed", 1, 1)
                                   /\ last' = Observed("apply", current_issue, "failed_final", FALSE, 1)
                              ELSE /\ messages' = Append(messages, Msg("feedback", current_issue))
                                   /\ hist' = Noted(TRUE, "apply_failed", 0, 0)
                                   /\ last' = Observed("apply", current_issue, "failed_retry", FALSE, 1)
                                   /\ UNCHANGED <<failed_fixes, current_issue_index>>
                           /\ pc' = "validate"
                           /\ UNCHANGED temp_modified_files
                      [] res.status = "ok" ->
                           /\ messages' = messages \o << Msg("fix_prompt", current_issue),
                                                         Msg("fix", current_issue) >>
                           /\ temp_modified_files' = res.modified_files
                           /\ pc' = "validate"
                           /\ hist' = Noted(TRUE, "applied", 0, 0)
                           /\ last' = Observed("apply", current_issue, "applied", FALSE, 0)
                           /\ UNCHANGED <<retry_count, failed_fixes, current_issue_index>>
    /\ UNCHANGED <<issues, dry_run, max_retries, thresholds, current_issue,
                   successful_fixes, validation_passed, disk, call, ret>>

\* llm.invoke (nodes.py 229) returns any of the replies.
apply_fix == \E reply \in Replies : apply_fix_with(reply)


\* a rejection that has already written the candidate to disk
reject_candidate_after_write(issue, kind, stale) ==
    /\ retry_count' = retry_count + 1
    /\ validation_passed' = FALSE
    /\ IF retry_count' >= max_retries
       THEN /\ failed_fixes' = Append(failed_fixes, FailedFix(issue, kind, retry_count'))
            /\ current_issue_index' = current_issue_index + 1
            /\ messages' = messages
            /\ hist' = Noted(FALSE, kind, 1, 1)
       ELSE /\ messages' = Append(messages, Msg("feedback", current_issue))
            /\ hist' = Noted(FALSE, kind, 0, 0)
            /\ UNCHANGED <<failed_fixes, current_issue_index>>
    /\ last' = Observed("validate", current_issue, kind, stale, last.round_incs + 1)
    /\ pc' = should_retry(retry_count', max_retries, validation_passed')
    /\ disk' = [f \in DOMAIN disk |->
                   IF f \in DOMAIN temp_modified_files /\ ~dry_run
                   THEN temp_modified_files[f] ELSE disk[f]]
    /\ UNCHANGED <<successful_fixes, file_cache>>

\* a final rejection that records the issue and stays on it
reject_candidate_not_advancing(issue, kind, stale) ==
    /\ retry_count' = retry_count + 1
    /\ validation_passed' = FALSE
    /\ IF retry_count' >= max_retries
       THEN /\ failed_fixes' = Append(failed_fixes, FailedFix(issue, kind, retry_count'))
            /\ messages' = messages
            /\ hist' = Noted(FALSE, kind, 1, 1)
            /\ UNCHANGED current_issue_index
       ELSE /\ messages' = Append(messages, Msg("feedback", current_issue))
            /\ hist' = Noted(FALSE, kind, 0, 0)
            /\ UNCHANGED <<failed_fixes, current_issue_index>>
    /\ last' = Observed("validate", current_issue, kind, stale, last.round_incs + 1)
    /\ pc' = should_retry(retry_count', max_retries, validation_passed')
    /\ UNCHANGED <<successful_fixes, file_cache, disk>>

\* a rejection that has already taken the candidate into the cache
reject_candidate_caching(issue, kind, stale) ==
    /\ retry_count' = retry_count + 1
    /\ validation_passed' = FALSE
    /\ IF retry_count' >= max_retries
       THEN /\ failed_fixes' = Append(failed_fixes, FailedFix(issue, kind, retry_count'))
            /\ current_issue_index' = current_issue_index + 1
            /\ messages' = messages
            /\ hist' = Noted(FALSE, kind, 1, 1)
       ELSE /\ messages' = Append(messages, Msg("feedback", current_issue))
            /\ hist' = Noted(FALSE, kind, 0, 0)
            /\ UNCHANGED <<failed_fixes, current_issue_index>>
    /\ last' = Observed("validate", current_issue, kind, stale, last.round_incs + 1)
    /\ pc' = should_retry(retry_count', max_retries, validation_passed')
    /\ file_cache' = [f \in (DOMAIN file_cache) \cup (DOMAIN temp_modified_files) |->
                         IF f \in DOMAIN temp_modified_files
                         THEN temp_modified_files[f] ELSE file_cache[f]]
    /\ UNCHANGED <<successful_fixes, disk>>

\* nodes.py 374-406 and 448-476: a rejected candidate, by either gate
reject_candidate(issue, kind, stale) ==
    /\ retry_count' = retry_count + 1
    /\ validation_passed' = FALSE
    /\ IF retry_count' >= max_retries
       THEN /\ failed_fixes' = Append(failed_fixes, FailedFix(issue, kind, retry_count'))
            /\ current_issue_index' = current_issue_index + 1
            /\ messages' = messages
            /\ hist' = Noted(FALSE, kind, 1, 1)
       ELSE /\ messages' = Append(messages, Msg("feedback", current_issue))
            /\ hist' = Noted(FALSE, kind, 0, 0)
            /\ UNCHANGED <<failed_fixes, current_issue_index>>
    /\ last' = Observed("validate", current_issue, kind, stale, last.round_incs + 1)
    /\ pc' = should_retry(retry_count', max_retries, validation_passed')
    /\ UNCHANGED <<successful_fixes, file_cache, disk>>

\* nodes.py 478-507: both gates passed.  write_file leaves the disk alone in
\* dry-run mode and when it reports status "error"; the cache is updated in
\* every case.  Line 497 then reads the name original_content, which
\* validate_fix never binds: the node raises NameError before the FixResult
\* is built, and graph.invoke propagates it.
accept_candidate(modified_files, stale) ==
    /\ validation_passed' = TRUE
    /\ \E written \in SUBSET (DOMAIN modified_files) :
          /\ dry_run => written = {}
          /\ disk' = [f \in DOMAIN disk |->
                         IF f \in written THEN modified_files[f] ELSE disk[f]]
    /\ file_cache' = [f \in (DOMAIN file_cache) \cup (DOMAIN modified_files) |->
                         IF f \in DOMAIN modified_files
                         THEN modified_files[f] ELSE file_cache[f]]
    /\ hist' = Noted(FALSE, "accepted", 0, 0)
    /\ last' = Observed("validate", current_issue, "accepted", stale, last.round_incs)
    /\ pc' = "crashed"
    /\ UNCHANGED <<retry_count, messages, failed_fixes, successful_fixes,
                   current_issue_index>>

\* nodes.py 343-507; the conditional edge of graph.py 75-82
validate_fix ==
    /\ pc = "validate"
    /\ current_issue # NoIssue
    /\ LET issue == issues[current_issue + 1]
           modified_files == temp_modified_files
           stale == ~(last.node = "apply" /\ last.outcome = "applied")
       IN  IF DOMAIN modified_files = {}
           THEN /\ last' = Observed("validate", current_issue, "no_candidate", FALSE,
                                    last.round_incs)
                /\ pc' = should_retry(retry_count, max_retries, validation_passed)
                /\ UNCHANGED <<retry_count, validation_passed, failed_fixes,
                               current_issue_index, messages, successful_fixes,
                               file_cache, disk, hist>>
           ELSE IF validation_errors(modified_files) # {}
           THEN reject_candidate(issue, "syntax", stale)
           ELSE IF excessive_changes(file_stats(modified_files, file_cache, disk), thresholds)
           THEN reject_candidate(issue, "size", stale)
           ELSE accept_candidate(modified_files, stale)
    /\ UNCHANGED <<issues, dry_run, max_retries, thresholds, current_issue,
                   temp_modified_files, call, ret>>

\* nodes.py 510-530; the edge finalize -> END of graph.py 84.  The success
\* rate divides by the number of issues.
finalize ==
    /\ pc = "finalize"
    /\ IF Len(issues) = 0
       THEN /\ pc' = "crashed"
            /\ last' = Observed("finalize", NoIssue, "raised", FALSE, 0)
            /\ UNCHANGED messages
       ELSE /\ pc' = "done"
            /\ last' = Observed("finalize", NoIssue, "summary", FALSE, 0)
            /\ messages' = Append(messages, Msg("summary", NoIssue))
    /\ UNCHANGED <<issues, dry_run, max_retries, thresholds, current_issue_index,
                   current_issue, retry_count, successful_fixes, failed_fixes,
                   file_cache, temp_modified_files, validation_passed, disk,
                   hist, call, ret>>

Next ==
    \/ select_next_issue
    \/ analyze_issue
    \/ apply_fix
    \/ validate_fix
    \/ finalize

Spec == Init /\ [][Next]_vars


(***************************************************************************)
(* Single calls of the pure functions, on bounded arguments                *)
(***************************************************************************)
Idle ==
    /\ issues = <<>>
    /\ dry_run = FALSE
    /\ max_retries = 0
    /\ thresholds = DefaultThresholds
    /\ current_issue_index = 0
    /\ current_issue = NoIssue
    /\ retry_count = 0
    /\ messages = <<>>
    /\ successful_fixes = <<>>
    /\ failed_fixes = <<>>
    /\ file_cache = EmptyMap
    /\ temp_modified_files = EmptyMap
    /\ validation_passed = FALSE
    /\ disk = InitialDisk
    /\ pc = "idle"
    /\ last = Observed("start", NoIssue, "none", FALSE, 0)
    /\ hist = NoHistory

\* ---- apply_edit on strings of characters ----
InitEdit ==
    /\ Idle
    /\ call \in [fn : {"apply_edit"},
                 content : StringsUpTo(MaxStrLen),
                 old_code : StringsUpTo(MaxStrLen),
                 new_code : StringsUpTo(MaxStrLen)]
    /\ ret = [fn |-> "none"]

call_apply_edit ==
    /\ call.fn = "apply_edit"
    /\ ret.fn = "none"
    /\ ret' = [fn |-> "apply_edit",
               result |-> apply_edit(call.content, call.old_code, call.new_code)]
    /\ UNCHANGED <<wfvars, call>>

NextEdit == call_apply_edit

SpecEdit == InitEdit /\ [][NextEdit]_vars

\* ---- the change-size gate of validate_fix on the statistics of the files ----
MaxGateFiles == 2     \* most files one candidate touches in SpecGate

\* what generate_diff_stats can return: no more deletions than original lines
GateStats ==
    { st \in [additions : {0, 1, 5, 30}, deletions : {0, 1},
              original_lines : {0, 1, 40, 300}] :
        st.deletions <= st.original_lines }

InitGate ==
    /\ Idle
    /\ call \in [fn : {"size_gate"},
                 stats : UNION {[1..n -> GateStats] : n \in 1..MaxGateFiles},
                 thresholds : ThresholdChoices]
    /\ ret = [fn |-> "none"]

call_size_gate ==
    /\ call.fn = "size_gate"
    /\ ret.fn = "none"
    /\ ret' = [fn |-> "size_gate",
               rejected |-> excessive_changes(call.stats, call.thresholds)]
    /\ UNCHANGED <<wfvars, call>>

NextGate == call_size_gate

SpecGate == InitGate /\ [][NextGate]_vars


\* ---- batch_issues_by_file on bounded feeds ----
MaxFeed == 3          \* longest issue feed given to batch_issues_by_file

NoLine == -1          \* issue.line is None

\* The line numbers of the issues of a feed (SonarQube lines are 1-indexed).
BatchLines == {NoLine, 1, 5, 10}

\* ord() of the characters the paths of the model are spelled with.
code_point ==
    [c \in {".", "a", "b", "n", "p", "t", "x", "y"} |->
        CASE c = "." -> 46
          [] c = "a" -> 97
          [] c = "b" -> 98
          [] c = "n" -> 110
          [] c = "p" -> 112
          [] c = "t" -> 116
          [] c = "x" -> 120
          [] c = "y" -> 121]

\* issue.get_file_path(): the path as a string of characters.
path_chars(path) ==
    CASE path = PyA -> <<"a", ".", "p", "y">>
      [] path = PyB -> <<"b", ".", "p", "y">>
      [] path = TxtN -> <<"n", ".", "t", "x", "t">>

\* x < y on Python strings: the first differing character decides, a proper
\* prefix is smaller.
RECURSIVE str_less(_, _)
str_less(x, y) ==
    IF y = <<>> THEN FALSE
    ELSE IF x = <<>> THEN TRUE
    ELSE IF Head(x) # Head(y) THEN code_point[Head(x)] < code_point[Head(y)]
    ELSE str_less(Tail(x), Tail(y))

\* nodes.py 40: sorted(by_file.keys())
RECURSIVE sorted_paths(_)
sorted_paths(paths) ==
    IF paths = {} THEN <<>>
    ELSE LET least == CHOOSE p \in paths :
                        \A q \in paths \ {p} : str_less(path_chars(p), path_chars(q))
         IN  <<least>> \o sorted_paths(paths \ {least})

\* nodes.py 43: key=lambda i: i.line or 0
sort_key(issue) == IF issue.line = NoLine THEN 0 ELSE issue.line

\* a sort that forgets reverse=True
insert_ascending(sorted, issue) ==
    LET n == Cardinality({i \in 1..Len(sorted) : sort_key(sorted[i]) <= sort_key(issue)})
    IN  SubSeq(sorted, 1, n) \o <<issue>> \o SubSeq(sorted, n + 1, Len(sorted))

\* a descending sort that puts an issue before the issues of equal key
insert_descending_before_equals(sorted, issue) ==
    LET n == Cardinality({i \in 1..Len(sorted) : sort_key(sorted[i]) > sort_key(issue)})
    IN  SubSeq(sorted, 1, n) \o <<issue>> \o SubSeq(sorted, n + 1, Len(sorted))

\* list.sort(key=..., reverse=True) is stable: an issue goes after the issues
\* sorted so far whose key is greater or equal.
insert_descending(sorted, issue) ==
    LET n == Cardinality({i \in 1..Len(sorted) : sort_key(sorted[i]) >= sort_key(issue)})
    IN  SubSeq(sorted, 1, n) \o <<issue>> \o SubSeq(sorted, n + 1, Len(sorted))

RECURSIVE sort_file_issues(_, _)
sort_file_issues(file_issues, n) ==
    IF n = 0 THEN <<>>
    ELSE insert_descending(sort_file_issues(file_issues, n - 1), file_issues[n])

\* nodes.py 33-36: by_file[path], the issues of the path in feed order
RECURSIVE by_file(_, _, _)
by_file(feed, path, i) ==
    IF i > Len(feed) THEN <<>>
    ELSE (IF feed[i].file = path THEN <<feed[i]>> ELSE <<>>) \o by_file(feed, path, i + 1)

\* nodes.py 39-44: batched.extend(file_issues) for each path in sorted order
RECURSIVE extend_batched(_, _, _)
extend_batched(feed, paths, k) ==
    IF k > Len(paths) THEN <<>>
    ELSE LET file_issues == by_file(feed, paths[k], 1)
         IN  sort_file_issues(file_issues, Len(file_issues))
             \o extend_batched(feed, paths, k + 1)

batch_issues_by_file(feed) ==
    extend_batched(feed, sorted_paths({feed[i].file : i \in 1..Len(feed)}), 1)

Feeds ==
    UNION { { [i \in 1..n |-> [key |-> i - 1, file |-> l[i].file, line |-> l[i].line]] :
                l \in [1..n -> [file : Files, line : BatchLines]] } :
            n \in 0..MaxFeed }

InitBatch ==
    /\ Idle
    /\ call \in [fn : {"batch_issues_by_file"}, issues : Feeds]
    /\ ret = [fn |-> "none"]

call_batch_issues_by_file ==
    /\ call.fn = "batch_issues_by_file"
    /\ ret.fn = "none"
    /\ ret' = [fn |-> "batch_issues_by_file",
               result |-> batch_issues_by_file(call.issues)]
    /\ UNCHANGED <<wfvars, call>>

NextBatch == call_batch_issues_by_file

SpecBatch == InitBatch /\ [][NextBatch]_vars


\* ---- batching twice, with issues that share a sort key ----
\* Lines with equal keys: no line and line 0 (key 0), and line 5.
TiedLines == {NoLine, 0, 5}

TiedFeeds ==
    UNION { { [i \in 1..n |-> [key |-> i - 1, file |-> l[i].file, line |-> l[i].line]] :
                l \in [1..n -> [file : {PyA, PyB}, line : TiedLines]] } :
            n \in 0..MaxFeed }

InitRebatch ==
    /\ Idle
    /\ call \in [fn : {"batch_issues_by_file"}, issues : TiedFeeds]
    /\ ret = [fn |-> "none"]

\* batch_issues_by_file called on the list it returned
call_batch_issues_again ==
    /\ call.fn = "batch_issues_by_file"
    /\ ret.fn = "batch_issues_by_file"
    /\ ret' = [fn |-> "batch_issues_again",
               first |-> ret.result,
               result |-> batch_issues_by_file(ret.result)]
    /\ UNCHANGED <<wfvars, call>>

NextRebatch ==
    \/ call_batch_issues_by_file
    \/ call_batch_issues_again

SpecRebatch == InitRebatch /\ [][NextRebatch]_vars


\* ---- a run started from the command line ----
\* The issues of the feeds given to main: two in a.py and one in b.py.
CliIssues ==
    { [key |-> 0, file |-> PyA, line |-> 10],
      [key |-> 1, file |-> PyA, line |-> 5],
      [key |-> 2, file |-> PyB, line |-> 1] }

\* The feeds: the issues of a subset of CliIssues, in any order.
CliFeeds ==
    UNION { { l \in [1..n -> CliIssues] : \A i, j \in 1..n : i # j => l[i] # l[j] } :
            n \in 0..Cardinality(CliIssues) }

\* cli.py 187-209: the issues are loaded; the arguments are parsed.
InitCli ==
    /\ issues = <<>>
    /\ dry_run = TRUE
    /\ max_retries = 1
    /\ thresholds \in RunThresholds
    /\ current_issue_index = 0
    /\ current_issue = NoIssue
    /\ retry_count = 0
    /\ messages = <<>>
    /\ successful_fixes = <<>>
    /\ failed_fixes = <<>>
    /\ file_cache = EmptyMap
    /\ temp_modified_files = EmptyMap
    /\ validation_passed = FALSE
    /\ disk = InitialDisk
    /\ pc = "main"
    /\ last = Observed("start", NoIssue, "none", FALSE, 0)
    /\ hist = NoHistory
    /\ call \in [fn : {"main"}, issues : CliFeeds]
    /\ ret = [fn |-> "none"]

\* cli.py 206-231: main returns when there is no issue; otherwise it puts the
\* loaded issues, as loaded, into the initial state and invokes the graph.
cli_main ==
    /\ pc = "main"
    /\ IF call.issues = <<>>
       THEN /\ pc' = "done"
            /\ UNCHANGED issues
       ELSE /\ issues' = call.issues
            /\ pc' = "select_next"
    /\ last' = Observed("main", NoIssue, "none", FALSE, 0)
    /\ UNCHANGED <<dry_run, max_retries, thresholds, current_issue_index,
                   current_issue, retry_count, messages, successful_fixes,
                   failed_fixes, file_cache, temp_modified_files,
                   validation_passed, disk, hist, call, ret>>

NextCli ==
    \/ cli_main
    \/ select_next_issue
    \/ analyze_issue
    \/ apply_fix
    \/ validate_fix
    \/ finalize

SpecCli == InitCli /\ [][NextCli]_vars


\* ---- runs on a repository that lacks a file an issue is reported in ----
IOIssueLists ==
    UNION {[1..n -> {PyA, Gone}] : n \in 1..2}

InitIO ==
    /\ issues \in {[i \in 1..Len(l) |-> [key |-> i - 1, file |-> l[i]]] : l \in IOIssueLists}
    /\ dry_run \in BOOLEAN
    /\ max_retries \in {1, 2}
    /\ thresholds \in RunThresholds
    /\ current_issue_index = 0
    /\ current_issue = NoIssue
    /\ retry_count = 0
    /\ messages = <<>>
    /\ successful_fixes = <<>>
    /\ failed_fixes = <<>>
    /\ file_cache = EmptyMap
    /\ temp_modified_files = EmptyMap
    /\ validation_passed = FALSE
    /\ disk = InitialDisk
    /\ pc = "select_next"
    /\ last = Observed("start", NoIssue, "none", FALSE, 0)
    /\ hist = NoHistory
    /\ call = [fn |-> "none"]
    /\ ret = [fn |-> "none"]

SpecIO == InitIO /\ [][Next]_vars


\* ---- one Apply step on a given reply of the model ----
MaxApplyEdits == 2    \* longest edit list of a reply in SpecApply

\* Edits of one line: "a" or "c" replaced by "c" or by two lines "a", in the
\* issue's file (no "file" key) or in b.py; an entry without old_code; an
\* old_code the issue's file holds twice.
ApplyEdits ==
    [file : {AbsentKey, PyB}, old_code : {<<"a">>, <<"c">>},
     new_code : {<<"c">>, <<"a", "a">>}]
    \cup { [file |-> AbsentKey, old_code |-> <<>>, new_code |-> <<"a">>],
           [file |-> AbsentKey, old_code |-> <<"b">>, new_code |-> <<"a">>] }

RECURSIVE ApplyEditLists(_)
ApplyEditLists(n) ==
    IF n = 0 THEN {<<>>}
    ELSE LET shorter == ApplyEditLists(n - 1)
         IN  shorter \cup {Append(l, e) : l \in {t \in shorter : Len(t) = n - 1},
                                         e \in ApplyEdits}

ApplyReplies ==
    {[kind |-> "object", edits |-> l, flat |-> fl] :
        l \in ApplyEditLists(MaxApplyEdits), fl \in FlatChoices}

\* A candidate an earlier attempt left in _temp_modified_files.
StaleCandidate == Put(EmptyMap, PyA, <<"X", "b", "b">>)

\* The state in which Apply runs for the first issue of a run: Analyze has
\* cached the issue's file and logged its two messages.
ApplyStart ==
    /\ issues = <<[key |-> 0, file |-> PyA]>>
    /\ dry_run \in BOOLEAN
    /\ max_retries \in {1, 2}
    /\ thresholds \in RunThresholds
    /\ current_issue_index = 0
    /\ current_issue = 0
    /\ retry_count \in {0, 1}
    /\ retry_count < max_retries
    /\ messages = << Msg("analysis_prompt", 0), Msg("analysis", 0) >>
                  \o (IF retry_count = 1 THEN << Msg("feedback", 0) >> ELSE <<>>)
    /\ successful_fixes = <<>>
    /\ failed_fixes = <<>>
    /\ file_cache = Put(EmptyMap, PyA, InitialDisk[PyA])
    /\ temp_modified_files = IF retry_count = 1 THEN StaleCandidate ELSE EmptyMap
    /\ validation_passed = FALSE
    /\ disk = InitialDisk
    /\ pc = "apply"
    /\ last = IF retry_count = 1
              THEN Observed("validate", 0, "syntax", FALSE, 1)
              ELSE Observed("analyze", 0, "analyzed", FALSE, 0)
    /\ hist = NoHistory
    /\ ret = [fn |-> "none"]

InitApply ==
    /\ ApplyStart
    /\ call \in [fn : {"llm_reply"}, reply : ApplyReplies]

apply_fix_on_reply ==
    /\ call.fn = "llm_reply"
    /\ apply_fix_with(call.reply)

NextApply == apply_fix_on_reply

SpecApply == InitApply /\ [][NextApply]_vars


\* ---- one Apply step on a reply with an edit that lacks code ----
\* Edits whose old_code or new_code is the empty string: an insertion
\* without anchor and two pure deletions.
EmptyCodeEdits ==
    { [file |-> AbsentKey, old_code |-> <<>>, new_code |-> <<"a">>],
      [file |-> AbsentKey, old_code |-> <<"a">>, new_code |-> <<>>],
      [file |-> PyB, old_code |-> <<"a">>, new_code |-> <<>>] }

\* Edits with both codes: one that applies in the issue's file, one that
\* applies in b.py, one that names a file the repository does not have.
FullCodeEdits ==
    { [file |-> AbsentKey, old_code |-> <<"a">>, new_code |-> <<"c">>],
      [file |-> PyB, old_code |-> <<"a">>, new_code |-> <<"a", "a">>],
      [file |-> Gone, old_code |-> <<"a">>, new_code |-> <<"a", "a">>] }

\* Replies of one or two edits, one of them at least without code, and the
\* legacy shape with an empty new_code.
EmptyCodeReplies ==
    LET any == EmptyCodeEdits \cup FullCodeEdits
        lists == { <<e>> : e \in EmptyCodeEdits }
                 \cup { <<e, f>> : e \in EmptyCodeEdits, f \in any }
                 \cup { <<e, f>> : e \in FullCodeEdits, f \in EmptyCodeEdits }
    IN  { [kind |-> "object", edits |-> l, flat |-> NoFlat] : l \in lists }
        \cup { [kind |-> "object", edits |-> <<>>,
                flat |-> [has_old |-> TRUE, old_code |-> <<"a">>,
                          has_new |-> TRUE, new_code |-> <<>>]] }

InitEmptyCode ==
    /\ ApplyStart
    /\ call \in [fn : {"llm_reply"}, reply : EmptyCodeReplies]

SpecEmptyCode == InitEmptyCode /\ [][NextApply]_vars


\* ---- the file path of an issue's component ----
MaxComponentLen == 4  \* longest component given to get_file_path

\* The characters of a component: the colon and two others.
ComponentChars == {"p", ":", "f"}

Components == UNION {[1..n -> ComponentChars] : n \in 0..MaxComponentLen}

\* str.split(":", 1)[1] with the colon at the last of these positions instead
\* would be rsplit.
get_file_path_after_last_colon(component) ==
    LET colons == {i \in 1..Len(component) : component[i] = ":"}
    IN  IF colons = {} THEN component
        ELSE LET at == CHOOSE i \in colons : \A j \in colons : j <= i
             IN  SubSeq(component, at + 1, Len(component))

\* issue.py 32-39: component.split(":", 1)[1] when the component has a colon,
\* the component otherwise.
get_file_path(component) ==
    LET colons == {i \in 1..Len(component) : component[i] = ":"}
    IN  IF colons = {} THEN component
        ELSE LET at == CHOOSE i \in colons : \A j \in colons : i <= j
             IN  SubSeq(component, at + 1, Len(component))

InitPath ==
    /\ Idle
    /\ call \in [fn : {"get_file_path"}, component : Components]
    /\ ret = [fn |-> "none"]

call_get_file_path ==
    /\ call.fn = "get_file_path"
    /\ ret.fn = "none"
    /\ ret' = [fn |-> "get_file_path", result |-> get_file_path(call.component)]
    /\ UNCHANGED <<wfvars, call>>

NextPath == call_get_file_path

SpecPath == InitPath /\ [][NextPath]_vars


\* ---- the issues fetched from the service ----
MaxLimit == 2         \* largest --limit given to fetch_issues_from_api
MaxPageLen == 2       \* most issues in one page of the service's answer
MaxPages == 2         \* the reported totals stay within this many pages

\* cli.py 54: the page size requested from the service.
page_size == 100

\* Rules as a prefix and a rest: an external rule, a rule of an analyzer, and
\* a rule of an analyzer whose name has "external_" after its start.
FetchRules ==
    { <<"external_", "roslyn">>, <<"python:", "S1481">>, <<"python:", "external_">> }

\* cli.py 85: issue.rule.startswith("external_")
startswith_external(rule) == Len(rule) >= 1 /\ rule[1] = "external_"

\* The "total" field of an answer: none, a full page, one more, ...
Totals == { n * page_size + d : n \in 0..(MaxPages - 1), d \in {0, 1} }

\* The rules of the issues of one page.
PageRules == UNION {[1..n -> FetchRules] : n \in 0..MaxPageLen}

\* The issues of one page; the key of an issue is its position among all the
\* issues the service has answered with.
page_issues(rules, served) ==
    [i \in 1..Len(rules) |-> [key |-> served + i, rule |-> rules[i]]]

NoResponse == [issues |-> <<>>, total |-> 0]

page_unfiltered(answer) ==
    answer

\* cli.py 83-86: the issues of the page whose rule is not external.
page_filtered(answer) ==
    SelectSeq(answer, LAMBDA issue : ~startswith_external(issue.rule))

\* cli.py 98: filtered_issues[:limit], for limit >= 0.
first_issues(filtered_issues, limit) ==
    SubSeq(filtered_issues, 1,
           IF limit < Len(filtered_issues) THEN limit ELSE Len(filtered_issues))

\* cli.py 52-55: the state before the first request.
InitFetch ==
    /\ Idle
    /\ call \in [fn : {"fetch_issues_from_api"}, limit : 0..MaxLimit]
    /\ ret = [fn |-> "fetch_issues_from_api", at |-> "loop",
              filtered_issues |-> <<>>, page |-> 1, served |-> 0,
              response |-> NoResponse, result |-> <<>>, exit_code |-> 0]

\* cli.py 58, 98-100: the loop condition fails; the function returns.
fetch_return ==
    /\ call.fn = "fetch_issues_from_api"
    /\ ret.at = "loop"
    /\ ~(Len(ret.filtered_issues) < call.limit)
    /\ ret' = [ret EXCEPT !.at = "returned",
                          !.result = first_issues(ret.filtered_issues, call.limit)]
    /\ UNCHANGED <<wfvars, call>>

\* cli.py 58-94, 98-100: one page is requested and answered; on break the
\* function returns.
fetch_page ==
    /\ call.fn = "fetch_issues_from_api"
    /\ ret.at = "loop"
    /\ Len(ret.filtered_issues) < call.limit
    /\ \E rules \in PageRules, total \in Totals :
           LET answer == page_issues(rules, ret.served)
               filtered_issues == ret.filtered_issues \o page_filtered(answer)
               answered == [ret EXCEPT !.filtered_issues = filtered_issues,
                                       !.served = ret.served + Len(answer),
                                       !.response = [issues |-> answer,
                                                     total |-> total]]
           IN  ret' = IF ret.page * page_size >= total \/ answer = <<>>
                      THEN [answered EXCEPT
                                !.at = "returned",
                                !.result = first_issues(filtered_issues, call.limit)]
                      ELSE [answered EXCEPT !.page = ret.page + 1]
    /\ UNCHANGED <<wfvars, call>>

\* cli.py 67-75, 95-97: the request or the parsing of its answer raises.
fetch_error ==
    /\ call.fn = "fetch_issues_from_api"
    /\ ret.at = "loop"
    /\ Len(ret.filtered_issues) < call.limit
    /\ ret' = [ret EXCEPT !.at = "exited", !.exit_code = 1]
    /\ UNCHANGED <<wfvars, call>>

NextFetch ==
    \/ fetch_return
    \/ fetch_page
    \/ fetch_error

SpecFetch == InitFetch /\ [][NextFetch]_vars

\* cli.py 68-73: a request is answered or fails within its timeout of 30 s.
SpecFetchLive == SpecFetch /\ WF_vars(NextFetch)


\* ---- the diff statistics of texts whose lines begin with any character ----
MaxDiffLines == 2     \* most lines of a text given to generate_diff_stats

\* Lines as character sequences: a plain line, a line beginning with "--"
\* and a line beginning with "++".
DiffLines == { <<"x">>, <<"-", "-", "x">>, <<"+", "+">> }

DiffTexts == UNION {[1..n -> DiffLines] : n \in 0..MaxDiffLines}

\* The edit scripts that turn the original into the modified text: lines
\* kept (" "), removed ("-") and added ("+").
RECURSIVE edit_scripts(_, _)
edit_scripts(original, modified) ==
    IF original = <<>> /\ modified = <<>> THEN { <<>> }
    ELSE (IF original # <<>>
          THEN { <<[mark |-> "-", line |-> Head(original)]>> \o s :
                     s \in edit_scripts(Tail(original), modified) }
          ELSE {})
         \cup
         (IF modified # <<>>
          THEN { <<[mark |-> "+", line |-> Head(modified)]>> \o s :
                     s \in edit_scripts(original, Tail(modified)) }
          ELSE {})
         \cup
         (IF original # <<>> /\ modified # <<>> /\ Head(original) = Head(modified)
          THEN { <<[mark |-> " ", line |-> Head(original)]>> \o s :
                     s \in edit_scripts(Tail(original), Tail(modified)) }
          ELSE {})

marked(script, mark) == Cardinality({i \in 1..Len(script) : script[i].mark = mark})

\* diff_tool.py 89-93: diff reports a shortest script; which one among
\* several is diff's choice.
diff_scripts(original, modified) ==
    { s \in edit_scripts(original, modified) :
          \A t \in edit_scripts(original, modified) :
              marked(s, "-") + marked(s, "+") <= marked(t, "-") + marked(t, "+") }

\* The standard output of diff -u: nothing for equal texts, else the two
\* header lines, a hunk header, and each script line behind its mark.
diff_stdout(script) ==
    IF marked(script, "-") + marked(script, "+") = 0 THEN <<>>
    ELSE << <<"-", "-", "-", " ", "t">>, <<"+", "+", "+", " ", "t">>, <<"@", "@">> >>
         \o [i \in 1..Len(script) |-> <<script[i].mark>> \o script[i].line]

\* str.startswith
startswith(line, prefix) ==
    /\ Len(line) >= Len(prefix)
    /\ SubSeq(line, 1, Len(prefix)) = prefix

\* diff_tool.py 95-103: the count of the output lines that begin with the
\* mark and not with three of it.
count_lines(stdout, mark) ==
    Cardinality({ i \in 1..Len(stdout) :
                      /\ startswith(stdout[i], <<mark>>)
                      /\ ~startswith(stdout[i], <<mark, mark, mark>>) })

\* diff_tool.py 95-114, on the output diff gave
diff_stats(original, modified, stdout) ==
    LET additions == count_lines(stdout, "+")
        deletions == count_lines(stdout, "-")
    IN  [additions |-> additions,
         deletions |-> deletions,
         total_changes |-> additions + deletions,
         original_lines |-> Len(original),
         modified_lines |-> Len(modified)]

InitDiff ==
    /\ Idle
    /\ call \in [fn : {"generate_diff_stats"}, original : DiffTexts, modified : DiffTexts]
    /\ ret = [fn |-> "none"]

call_generate_diff_stats ==
    /\ call.fn = "generate_diff_stats"
    /\ ret.fn = "none"
    /\ \E script \in diff_scripts(call.original, call.modified) :
           ret' = [fn |-> "generate_diff_stats",
                   script |-> script,
                   result |-> diff_stats(call.original, call.modified,
                                         diff_stdout(script))]
    /\ UNCHANGED <<wfvars, call>>

NextDiff == call_generate_diff_stats

SpecDiff == InitDiff /\ [][NextDiff]_vars


\* ---- runs with issues in a file whose extension maps to no language ----
ExtIssueLists ==
    UNION {[1..n -> {PyA, TxtN}] : n \in 1..2}

InitExt ==
    /\ issues \in {[i \in 1..Len(l) |-> [key |-> i - 1, file |-> l[i]]] : l \in ExtIssueLists}
    /\ dry_run \in BOOLEAN
    /\ max_retries \in {1, 2}
    /\ thresholds \in RunThresholds
    /\ current_issue_index = 0
    /\ current_issue = NoIssue
    /\ retry_count = 0
    /\ messages = <<>>
    /\ successful_fixes = <<>>
    /\ failed_fixes = <<>>
    /\ file_cache = EmptyMap
    /\ temp_modified_files = EmptyMap
    /\ validation_passed = FALSE
    /\ disk = InitialDisk
    /\ pc = "select_next"
    /\ last = Observed("start", NoIssue, "none", FALSE, 0)
    /\ hist = NoHistory
    /\ call = [fn |-> "none"]
    /\ ret = [fn |-> "none"]

SpecExt == InitExt /\ [][Next]_vars


\* ---- the node located for an issue's position ----
MaxLine == 3          \* largest 1-indexed line given to locate_issue
MaxColumn == 7        \* largest 0-indexed column given to locate_issue

\* A node of a syntax tree: its parent (0 for the root) and its span in
\* 0-indexed (row, column) points; the children of a node are the nodes that
\* name it as parent, in the order of the table.
TreeNode(parent, start_row, start_col, end_row, end_col) ==
    [parent |-> parent, start_point |-> <<start_row, start_col>>,
     end_point |-> <<end_row, end_col>>]

\* "ab = cd": module > expression_statement > assignment > ab, =, cd
AssignmentTree ==
    << TreeNode(0, 0, 0, 1, 0), TreeNode(1, 0, 0, 0, 7), TreeNode(2, 0, 0, 0, 7),
       TreeNode(3, 0, 0, 0, 2), TreeNode(3, 0, 3, 0, 4), TreeNode(3, 0, 5, 0, 7) >>

\* "if a:" / "    b": module > if_statement > if, a, :, block > statement > b
IfTree ==
    << TreeNode(0, 0, 0, 2, 0), TreeNode(1, 0, 0, 1, 5),
       TreeNode(2, 0, 0, 0, 2), TreeNode(2, 0, 3, 0, 4), TreeNode(2, 0, 4, 0, 5),
       TreeNode(2, 1, 4, 1, 5), TreeNode(6, 1, 4, 1, 5), TreeNode(7, 1, 4, 1, 5) >>

\* "a" / "b": module > two expression statements, each an identifier
TwoStatementTree ==
    << TreeNode(0, 0, 0, 2, 0), TreeNode(1, 0, 0, 0, 1), TreeNode(2, 0, 0, 0, 1),
       TreeNode(1, 1, 0, 1, 1), TreeNode(4, 1, 0, 1, 1) >>

ParsedTrees == {AssignmentTree, IfTree, TwoStatementTree}

\* node.children
children(tree, node) == { c \in 1..Len(tree) : tree[c].parent = node }

\* locator.py 41-48: the test a child has to pass to be descended into
child_selected(child, target_line, target_col) ==
    /\ child.start_point[1] <= target_line /\ target_line <= child.end_point[1]
    /\ \/ child.start_point[1] < target_line /\ target_line < child.end_point[1]
       \/ child.start_point[1] = target_line /\ child.start_point[2] <= target_col
       \/ child.end_point[1] = target_line /\ child.end_point[2] >= target_col

\* locator.py 38-49: the first child that passes the test is descended into;
\* the node itself is returned when none does.
RECURSIVE find_deepest_node(_, _, _, _)
find_deepest_node(tree, node, target_line, target_col) ==
    LET passing == { c \in children(tree, node) :
                         child_selected(tree[c], target_line, target_col) }
    IN  IF passing = {} THEN node
        ELSE LET first == CHOOSE c \in passing : \A d \in passing : c <= d
             IN  find_deepest_node(tree, first, target_line, target_col)

\* locator.py 51-71: the located node with its 1-indexed lines
locate_issue(tree, line, column) ==
    LET node == find_deepest_node(tree, 1, line - 1, column)
    IN  [node |-> node,
         start_line |-> tree[node].start_point[1] + 1,
         end_line |-> tree[node].end_point[1] + 1]

InitLocate ==
    /\ Idle
    /\ call \in [fn : {"locate_issue"}, tree : ParsedTrees,
                 line : 1..MaxLine, column : 0..MaxColumn]
    /\ ret = [fn |-> "none"]

call_locate_issue ==
    /\ call.fn = "locate_issue"
    /\ ret.fn = "none"
    /\ ret' = [fn |-> "locate_issue",
               result |-> locate_issue(call.tree, call.line, call.column)]
    /\ UNCHANGED <<wfvars, call>>

NextLocate == call_locate_issue

SpecLocate == InitLocate /\ [][NextLocate]_vars


\* ---- the cross-references Analyze gives to the model ----
MaxMatches == 6       \* most matches one search reports

\* nodes.py 121: the cap on the cross-references
cross_ref_limit == 5

\* The repository root the search is run on, and paths as lists of segments.
RepoRoot == "/repo"

\* The matches of a query: the repository file each one is in, with its
\* line number.
MatchLists ==
    UNION { { [i \in 1..n |-> [file |-> l[i], line_number |-> i]] :
                l \in [1..n -> {PyA, PyB}] } :
            n \in 0..MaxMatches }

\* code_search.py 82-90: ripgrep, given the repository root as its search
\* path, reports each match under that root.
parse_ripgrep_output(matches) ==
    [i \in 1..Len(matches) |->
        [file_path |-> <<RepoRoot, matches[i].file>>,
         line_number |-> matches[i].line_number,
         match |-> matches[i]]]

\* code_search.py 132-145: grep reports the same path, which
\* Path(file_path).relative_to(repo) turns into a path relative to the root.
grep_fallback(matches) ==
    [i \in 1..Len(matches) |->
        [file_path |-> Tail(<<RepoRoot, matches[i].file>>),
         line_number |-> matches[i].line_number,
         match |-> matches[i]]]

\* code_search.py 38-64
search_code(backend, matches) ==
    IF backend = "rg" THEN parse_ripgrep_output(matches) ELSE grep_fallback(matches)

\* nodes.py 118-121: the references outside the issue's file, five at most;
\* file_path is issue.get_file_path(), relative to the repository root.
cross_refs(references, file_path) ==
    LET other == SelectSeq(references, LAMBDA r : r.file_path # <<file_path>>)
    IN  SubSeq(other, 1, IF Len(other) < cross_ref_limit THEN Len(other)
                         ELSE cross_ref_limit)

InitRefs ==
    /\ Idle
    /\ call \in [fn : {"cross_refs"}, backend : {"rg", "grep"},
                 file_path : {PyA, PyB}, matches : MatchLists]
    /\ ret = [fn |-> "none"]

call_cross_refs ==
    /\ call.fn = "cross_refs"
    /\ ret.fn = "none"
    /\ ret' = [fn |-> "cross_refs",
               result |-> cross_refs(search_code(call.backend, call.matches),
                                     call.file_path)]
    /\ UNCHANGED <<wfvars, call>>

NextRefs == call_cross_refs

SpecRefs == InitRefs /\ [][NextRefs]_vars


(***************************************************************************)
(* Properties                                                              *)
(***************************************************************************)
SelectedIssue == issues[current_issue + 1]

HasRecord(fixes, key) == \E i \in 1..Len(fixes) : fixes[i].issue_key = key

\* A line the parser reports an error for, in a file it is run on.
HasErrorLine(content) == \E i \in 1..Len(content) : content[i] = "X"
SyntaxChecked(path) == path.ext \in DOMAIN extension_map
FailsToParse(path, content) == SyntaxChecked(path) /\ HasErrorLine(content)

\* C1: whatever mix of Apply and Validate failures an issue meets, its
\* processing appends exactly one terminal record and advances
\* current_issue_index exactly once: never two records, never two advances,
\* the index never runs past the issue after the selected one, and when
\* Validate routes to SelectNext the record and the advance are there.
C1_OneTerminalRecordPerIssue ==
    /\ hist.records <= 1
    /\ hist.advances <= 1
    /\ (current_issue # NoIssue => current_issue_index <= current_issue + 1)
    /\ (pc = "select_next" /\ last.node = "validate" /\ last.outcome # "accepted"
            => hist.records = 1 /\ hist.advances = 1)

\* C2: retry_count is zero when SelectNext has selected an issue, and one
\* attempt (an Apply step and the Validate step after it) increments it at
\* most once, exactly once when the attempt failed.
C2_OneIncrementPerAttempt ==
    /\ (last.node = "select_next" /\ last.outcome = "selected" => retry_count = 0)
    /\ last.round_incs <= 1
    /\ (last.node = "validate" /\ last.outcome \in {"syntax", "size"}
            => last.round_incs = 1)

\* C3: with max_retries = N >= 1, an issue whose every candidate applies but
\* fails the syntax check is attempted at most N times; after fewer than N
\* rejections it has no record and the index has not moved; once Validate
\* routes to SelectNext it went through exactly N rounds, has exactly one
\* FailedFix (the last one appended, with iterations = N) and the index
\* advanced exactly once.
OnlySyntaxFailures ==
    /\ current_issue # NoIssue
    /\ hist.kinds # {}
    /\ hist.kinds \subseteq {"applied", "syntax"}

C3_SyntaxRetryTermination ==
    (max_retries >= 1 /\ OnlySyntaxFailures) =>
        /\ hist.applies <= max_retries
        /\ retry_count <= max_retries
        /\ hist.applies \in {retry_count, retry_count + 1}
        /\ hist.records = hist.advances
        /\ hist.records = (IF retry_count = max_retries THEN 1 ELSE 0)
        /\ current_issue_index = current_issue + hist.advances
        /\ ~HasRecord(successful_fixes, SelectedIssue.key)
        /\ (pc = "apply" => retry_count < max_retries)
        /\ (pc = "select_next" =>
                /\ hist.applies = max_retries
                /\ retry_count = max_retries
                /\ hist.records = 1
                /\ failed_fixes[Len(failed_fixes)] =
                       FailedFix(SelectedIssue, "syntax", max_retries))

C3_Witness ==
    /\ max_retries >= 2
    /\ OnlySyntaxFailures
    /\ pc = "select_next"
    /\ hist.applies = max_retries
    /\ hist.records = 1

\* C4: when a candidate passes both gates, the Validate step completes: the
\* workflow continues at SelectNext, successful_fixes holds a FixResult for
\* the issue and current_issue_index has advanced by one.
C4_AcceptCompletes ==
    (last.node = "validate" /\ last.outcome = "accepted") =>
        /\ pc = "select_next"
        /\ HasRecord(successful_fixes, SelectedIssue.key)
        /\ current_issue_index = current_issue + 1


\* The start positions at which sub occurs in s, overlapping ones included.
Occurrences(s, sub) == {i \in 1..(Len(s) + 1) : MatchAt(s, sub, i)}

EditCalled == call.fn = "apply_edit" /\ ret.fn = "apply_edit"

\* C5: apply_edit fails, returning no content, whenever old_code occurs in the
\* content at no start position or at two or more start positions
\* (overlapping occurrences counted separately), and succeeds only when it
\* occurs at exactly one.
C5_FailsUnlessOneOccurrence ==
    EditCalled =>
        (ret.result.ok <=> Cardinality(Occurrences(call.content, call.old_code)) = 1)

\* C6: when old_code occurs at exactly one position p of the content,
\* apply_edit returns prefix + new_code + suffix, where the content is
\* prefix + old_code + suffix, of length len(C) + len(new_code) - len(old_code).
C6_SingleOccurrenceReplaced ==
    (EditCalled /\ Cardinality(Occurrences(call.content, call.old_code)) = 1) =>
        LET p == CHOOSE i \in Occurrences(call.content, call.old_code) : TRUE
            prefix == SubSeq(call.content, 1, p - 1)
            suffix == SubSeq(call.content, p + Len(call.old_code), Len(call.content))
        IN  /\ call.content = prefix \o call.old_code \o suffix
            /\ ret.result.ok
            /\ ret.result.content = prefix \o call.new_code \o suffix
            /\ Len(ret.result.content)
                   = Len(call.content) + Len(call.new_code) - Len(call.old_code)

C6_Witness ==
    /\ EditCalled
    /\ Occurrences(call.content, call.old_code) = {2}
    /\ Len(call.old_code) = 1
    /\ Len(call.content) = 3
    /\ Len(call.new_code) = 2
    /\ ret.result.ok

\* C7: the content on disk changes only in a Validate step whose candidate
\* passed both gates for every touched file, outside dry-run mode, and what
\* changes is a touched file that receives the candidate's content; every
\* other step leaves the disk as it is.
C7_DiskWrittenOnlyOnAcceptance ==
    [][ disk' # disk =>
          /\ pc = "validate"
          /\ ~dry_run
          /\ last.node = "apply" /\ last.outcome = "applied"
          /\ \A path \in DOMAIN temp_modified_files :
                ~FailsToParse(path, temp_modified_files[path])
          /\ ~excessive_changes(file_stats(temp_modified_files, file_cache, disk),
                                thresholds)
          /\ \A f \in DOMAIN disk :
                disk'[f] # disk[f] =>
                    /\ f \in DOMAIN temp_modified_files
                    /\ disk'[f] = temp_modified_files[f] ]_vars

C7_Witness ==
    /\ disk # InitialDisk
    /\ last.node = "validate"
    /\ last.outcome = "accepted"

\* C8: a candidate is accepted only if no touched file, the issue's own or
\* another, fails to parse; a parse error in any touched file rejects the
\* candidate at the syntax gate, so the change-size gate decides only
\* candidates without a parse error.
C8_EveryTouchedFileParses ==
    (last.node = "validate" /\ last.outcome # "no_candidate") =>
        LET offending == { path \in DOMAIN temp_modified_files :
                             FailsToParse(path, temp_modified_files[path]) }
        IN  /\ last.outcome = "accepted" => offending = {}
            /\ last.outcome = "size" => offending = {}
            /\ offending # {} <=> last.outcome = "syntax"

C8_Witness ==
    /\ last.node = "validate"
    /\ last.outcome = "syntax"
    /\ ~last.stale
    /\ ~HasErrorLine(temp_modified_files[SelectedIssue.file])
    /\ \E path \in DOMAIN temp_modified_files :
          /\ path # SelectedIssue.file
          /\ FailsToParse(path, temp_modified_files[path])

GateCalled == call.fn = "size_gate" /\ ret.fn = "size_gate"

RECURSIVE ChangedLines(_, _)
ChangedLines(stats, n) ==
    IF n = 0 THEN 0
    ELSE stats[n].additions + stats[n].deletions + ChangedLines(stats, n - 1)

\* C9: given the syntax check passed, the candidate is rejected exactly when
\* the changed lines (additions + deletions) summed over the touched files
\* exceed max_lines_changed, or some touched file has changed lines /
\* max(original_lines, 1) above max_change_ratio; a value equal to its
\* threshold does not reject.  With 30 and 0.1, one 40-line file with 5
\* changed lines is rejected.
C9_SizeGate ==
    GateCalled =>
        LET th == call.thresholds
            n == Len(call.stats)
            over_total == ChangedLines(call.stats, n) > th.max_lines_changed
            over_ratio ==
                \E i \in 1..n :
                    LET changed == call.stats[i].additions + call.stats[i].deletions
                        lines == IF call.stats[i].original_lines >= 1
                                 THEN call.stats[i].original_lines ELSE 1
                    IN  changed * th.ratio_den > th.ratio_num * lines
        IN  /\ ret.rejected <=> (over_total \/ over_ratio)
            /\ ( /\ th.max_lines_changed = 30
                 /\ th.ratio_num = 1 /\ th.ratio_den = 10
                 /\ n = 1
                 /\ call.stats[1].original_lines = 40
                 /\ call.stats[1].additions + call.stats[1].deletions = 5 )
               => ret.rejected

C9_Witness ==
    /\ GateCalled
    /\ call.thresholds = DefaultThresholds
    /\ Len(call.stats) = 1
    /\ call.stats[1] = [additions |-> 5, deletions |-> 0, original_lines |-> 40]
    /\ ret.rejected

\* C10: in dry-run mode an accepted fix updates file_cache for every touched
\* file and is recorded as a FixResult in successful_fixes, and the disk
\* keeps its content in every state of the run.
C10_DryRunAcceptance ==
    dry_run =>
        /\ disk = InitialDisk
        /\ (last.node = "validate" /\ last.outcome = "accepted") =>
              /\ \A path \in DOMAIN temp_modified_files :
                    /\ path \in DOMAIN file_cache
                    /\ file_cache[path] = temp_modified_files[path]
              /\ HasRecord(successful_fixes, SelectedIssue.key)


\* The issues after the selected one that are reported in a file the
\* candidate touches.
LaterIssueInTouchedFile ==
    \E j \in (current_issue + 2)..Len(issues) :
        issues[j].file \in DOMAIN temp_modified_files

\* C11: after a fix touching file F is accepted, file_cache[F] holds the
\* accepted content (on disk or not), and the run goes on to the later issues
\* of F, whose Analyze, Apply and Validate steps read that cache entry: with
\* a later issue in a touched file, the acceptance is not the end of the run.
C11_AcceptedContentIsCurrent ==
    (last.node = "validate" /\ last.outcome = "accepted") =>
        /\ \A path \in DOMAIN temp_modified_files :
              /\ path \in DOMAIN file_cache
              /\ file_cache[path] = temp_modified_files[path]
        /\ (LaterIssueInTouchedFile => pc = "select_next")

\* C12: every malformed model reply in Apply is handled as a recoverable
\* failure through the retry policy: the Apply step never raises, it ends
\* with the candidate stored or with retry_count incremented, and the graph
\* goes on to its next node.
C12_MalformedReplyRecoverable ==
    (last.node = "apply" /\ last.outcome # "raised_io") =>
        /\ last.outcome \in {"applied", "failed_retry", "failed_final"}
        /\ pc = "validate"

RecordsOf(key) ==
    Cardinality({i \in 1..Len(successful_fixes) : successful_fixes[i].issue_key = key})
    + Cardinality({i \in 1..Len(failed_fixes) : failed_fixes[i].issue_key = key})

\* C13: when Finalize is reached, every issue of the input list has exactly
\* one record, a FixResult or a FailedFix: the two lists together are as long
\* as the issue list and no issue key is in two records.
C13_FullAccounting ==
    pc = "finalize" =>
        /\ Len(successful_fixes) + Len(failed_fixes) = Len(issues)
        /\ \A k \in 1..Len(issues) : RecordsOf(issues[k].key) = 1

\* C14: a run on a non-empty issue list never ends in an unhandled error
\* once the loop has started, and every Apply/Validate round that returns to
\* Apply has increased retry_count, every round that returns to SelectNext
\* has advanced the index: nothing keeps the run from reaching Finalize.
C14_RunReachesFinalize ==
    /\ (Len(issues) > 0 => pc # "crashed")
    /\ (last.node = "validate" /\ pc = "apply" =>
            last.round_incs >= 1 /\ retry_count < max_retries)
    /\ (last.node = "validate" /\ pc = "select_next" =>
            current_issue_index > current_issue)
    /\ retry_count <= max_retries + 2

\* C17: SelectNext with the index past the end sets current_issue to none and
\* goes to Finalize; otherwise it selects issues[current_issue_index], resets
\* retry_count to 0 and goes to Analyze; in both cases the index, the fix
\* lists, the cache and the disk are left as they are.
C17_SelectNextStep ==
    [][ pc = "select_next" =>
          /\ IF current_issue_index >= Len(issues)
             THEN /\ current_issue' = NoIssue
                  /\ pc' = "finalize"
             ELSE /\ current_issue' = current_issue_index
                  /\ retry_count' = 0
                  /\ pc' = "analyze"
          /\ current_issue_index' = current_issue_index
          /\ successful_fixes' = successful_fixes
          /\ failed_fixes' = failed_fixes
          /\ file_cache' = file_cache
          /\ disk' = disk ]_vars

C17_Witness ==
    /\ last.node = "select_next"
    /\ last.outcome = "selected"
    /\ current_issue = 1
    /\ retry_count = 0
    /\ Len(failed_fixes) >= 1
    /\ failed_fixes[1].iterations >= 1
    /\ pc = "analyze"

FeedbackCount(issue) ==
    Cardinality({i \in 1..Len(messages) :
                    messages[i] = Msg("feedback", issue)})

\* C18: at every model call of Apply for issue k the conversation log holds
\* the analysis of k and the feedback of the earlier attempts for k, and no
\* message produced while an issue before k was processed: the log is reset
\* when a new issue is selected.
C18_LogResetOnSelection ==
    (pc = "apply" /\ current_issue # NoIssue) =>
        /\ \E i \in 1..Len(messages) : messages[i] = Msg("analysis", current_issue)
        /\ FeedbackCount(current_issue) = retry_count
        /\ \A i \in 1..Len(messages) : messages[i].issue = current_issue

\* C19: a failed step that leaves retry_count below max_retries appends one
\* feedback message and no FailedFix and keeps the index; one that brings
\* retry_count to max_retries appends a FailedFix with its error and no
\* feedback.  A failed attempt is counted once: after an Apply step that
\* failed, the Validate step of the same attempt adds nothing, and the graph
\* goes back to Apply for the same issue if retries remain, to SelectNext if
\* none does.
C19_FeedbackOrFailedFix ==
    [][ /\ (pc \in {"apply", "validate"} /\ retry_count' > retry_count) =>
              IF retry_count' < max_retries
              THEN /\ messages' = Append(messages, Msg("feedback", current_issue))
                   /\ failed_fixes' = failed_fixes
                   /\ current_issue_index' = current_issue_index
              ELSE /\ (max_retries >= 1 => retry_count' = max_retries)
                   /\ Len(failed_fixes') = Len(failed_fixes) + 1
                   /\ failed_fixes'[Len(failed_fixes')].issue_key = SelectedIssue.key
                   /\ failed_fixes'[Len(failed_fixes')].iterations = retry_count'
                   /\ messages' = messages
        /\ (pc = "validate" /\ last.node = "apply" /\ last.outcome = "failed_retry") =>
              /\ retry_count' = retry_count
              /\ messages' = messages
              /\ failed_fixes' = failed_fixes
              /\ current_issue_index' = current_issue_index
              /\ pc' = "apply"
        /\ (pc = "validate" /\ last.node = "apply" /\ last.outcome = "failed_final") =>
              /\ retry_count' = retry_count
              /\ messages' = messages
              /\ failed_fixes' = failed_fixes
              /\ pc' = "select_next" ]_vars

\* C20: the Analyze step leaves the disk, current_issue_index, retry_count,
\* the two fix lists and every existing file_cache entry as they are; it may
\* add a cache entry for the issue's file and append to the conversation
\* log; its successor is Apply, also when the rule lookup or the
\* cross-reference search failed.
C20_AnalyzeFrame ==
    [][ pc = "analyze" =>
          /\ disk' = disk
          /\ current_issue_index' = current_issue_index
          /\ retry_count' = retry_count
          /\ successful_fixes' = successful_fixes
          /\ failed_fixes' = failed_fixes
          /\ \A f \in DOMAIN file_cache :
                f \in DOMAIN file_cache' /\ file_cache'[f] = file_cache[f]
          /\ (DOMAIN file_cache') \ (DOMAIN file_cache) \subseteq {SelectedIssue.file}
          /\ Len(messages') >= Len(messages)
          /\ SubSeq(messages', 1, Len(messages)) = messages
          /\ pc' = "apply" ]_vars

C20_Witness ==
    /\ last.node = "analyze"
    /\ last.outcome = "analyzed_without_both"
    /\ pc = "apply"
    /\ current_issue = 1
    /\ Len(failed_fixes) >= 1
    /\ SelectedIssue.file \in DOMAIN file_cache


BatchCalled == call.fn = "batch_issues_by_file" /\ ret.fn = "batch_issues_by_file"

\* p comes before q in lexicographic order of the characters' code points.
PathBefore(p, q) ==
    LET x == path_chars(p)
        y == path_chars(q)
    IN  \E k \in 1..(Len(x) + 1) :
           /\ k <= Len(y)
           /\ \A j \in 1..(k - 1) : x[j] = y[j]
           /\ (k <= Len(x) => code_point[x[k]] < code_point[y[k]])

Located(issue) == <<issue.file, issue.line>>

\* C15: batch_issues_by_file returns the issues of the feed, each once,
\* grouped by file path in lexicographic order of the path, and within a file
\* by line number descending with the issues without a line number last;
\* the feed {(a.py,10), (a.py,5), (b.py,1)} in any order yields
\* a.py@10, a.py@5, b.py@1.
C15_BatchOrder ==
    BatchCalled =>
        LET feed == call.issues
            batched == ret.result
        IN  /\ Len(batched) = Len(feed)
            /\ \A i \in 1..Len(feed) : \E j \in 1..Len(batched) : batched[j] = feed[i]
            /\ \A i \in 1..Len(batched) : \A j \in (i + 1)..Len(batched) :
                  /\ batched[i].file = batched[j].file \/ PathBefore(batched[i].file, batched[j].file)
                  /\ batched[i].file = batched[j].file =>
                        /\ batched[i].line = NoLine => batched[j].line = NoLine
                        /\ (batched[i].line # NoLine /\ batched[j].line # NoLine)
                              => batched[i].line >= batched[j].line
            /\ {Located(feed[i]) : i \in 1..Len(feed)} = {<<PyA, 10>>, <<PyA, 5>>, <<PyB, 1>>}
                  /\ Len(feed) = 3
               => [i \in 1..3 |-> Located(batched[i])]
                      = << <<PyA, 10>>, <<PyA, 5>>, <<PyB, 1>> >>

C15_Witness ==
    /\ BatchCalled
    /\ [i \in 1..Len(call.issues) |-> Located(call.issues[i])]
           = << <<PyB, 1>>, <<PyA, 5>>, <<PyA, 10>> >>
    /\ [i \in 1..Len(ret.result) |-> Located(ret.result[i])]
           = << <<PyA, 10>>, <<PyA, 5>>, <<PyB, 1>> >>


\* C16: in a run started from the command line the workflow selects the
\* issues in the Batcher's order, whatever the order of the feed: the list it
\* iterates over is batch_issues_by_file of the feed, so that the issues of
\* one file are selected consecutively, from the highest line number to the
\* lowest.
C16_SelectionFollowsBatcher ==
    (call.fn = "main" /\ last.node = "select_next" /\ last.outcome = "selected") =>
        /\ issues = batch_issues_by_file(call.issues)
        /\ \A j \in 1..current_issue :
              issues[j].file = SelectedIssue.file => issues[j].line >= SelectedIssue.line
        /\ \A j \in 1..current_issue : \A k \in (j + 1)..current_issue :
              issues[j].file = SelectedIssue.file => issues[k].file = SelectedIssue.file


\* C21: a per-issue I/O failure does not abort the run: no Analyze or Apply
\* step ends by raising the error of a file that is missing (the issue's own
\* or one an edit names); after such a step the workflow is still running,
\* with the failure counted for the issue.
C21_IOFailureRecorded ==
    /\ last.outcome # "raised_io"
    /\ (last.node \in {"analyze", "apply"} /\ last.issue # NoIssue
          /\ issues[last.issue + 1].file \notin DOMAIN disk)
         => pc # "crashed"


\* The edit list with the issue's file written out where an entry has no
\* "file" key.
Targeted(edits, issue_file) ==
    [i \in 1..Len(edits) |->
        [file |-> IF edits[i].file = AbsentKey THEN issue_file ELSE edits[i].file,
         old_code |-> edits[i].old_code,
         new_code |-> edits[i].new_code]]

\* What the first n edits of a list make of the files, each edit searched
\* in what the edits before it made of its file; the files start as the
\* cache, or the disk, holds them.
RECURSIVE ExpectedCandidate(_, _, _)
ExpectedCandidate(edits, n, issue_file) ==
    IF n = 0
    THEN [ok |-> TRUE, files |-> Put(EmptyMap, issue_file, file_cache[issue_file])]
    ELSE LET earlier == ExpectedCandidate(edits, n - 1, issue_file)
             e == edits[n]
         IN  IF ~earlier.ok \/ e.old_code = <<>> \/ e.new_code = <<>>
             THEN [ok |-> FALSE, files |-> EmptyMap]
             ELSE LET current == IF e.file \in DOMAIN earlier.files THEN earlier.files[e.file]
                                 ELSE IF e.file \in DOMAIN file_cache THEN file_cache[e.file]
                                 ELSE disk[e.file]
                      res == apply_edit(current, e.old_code, e.new_code)
                  IN  IF res.ok
                      THEN [ok |-> TRUE, files |-> Put(earlier.files, e.file, res.content)]
                      ELSE [ok |-> FALSE, files |-> EmptyMap]

ReplyGiven == pc = "apply" /\ call.fn = "llm_reply"

\* C22: within one Apply attempt the edits are applied in list order, the
\* k-th edit to a file searched (uniqueness included) in the result of the
\* earlier edits to that file; the attempt is all-or-nothing: if an edit of
\* the list fails, the step changes neither the disk, nor the content of an
\* existing cache entry, nor the stashed candidate map.
C22_SequentialAllOrNothing ==
    [][ (ReplyGiven /\ call.reply.edits # <<>>) =>
          LET edits == Targeted(call.reply.edits, SelectedIssue.file)
              expected == ExpectedCandidate(edits, Len(edits), SelectedIssue.file)
          IN  /\ expected.ok =>
                    /\ last'.outcome = "applied"
                    /\ temp_modified_files' = expected.files
              /\ ~expected.ok =>
                    /\ last'.outcome \in {"failed_retry", "failed_final"}
                    /\ temp_modified_files' = temp_modified_files
                    /\ retry_count' = retry_count + 1
              /\ disk' = disk
              /\ \A f \in DOMAIN file_cache :
                    f \in DOMAIN file_cache' /\ file_cache'[f] = file_cache[f] ]_vars

C22_Witness ==
    /\ call.fn = "llm_reply"
    /\ call.reply.edits =
          << [file |-> AbsentKey, old_code |-> <<"a">>, new_code |-> <<"a", "a">>],
             [file |-> AbsentKey, old_code |-> <<"a">>, new_code |-> <<"c">>] >>
    /\ last.node = "apply"
    /\ last.outcome = "failed_final"
    /\ temp_modified_files = StaleCandidate
    /\ file_cache[PyA] = <<"a", "b", "b">>

\* C23: a reply object with an absent or empty "edits" list and top-level
\* old_code and new_code is one edit against the issue's file; a reply with a
\* non-empty "edits" list ignores the top-level old_code / new_code; an edit
\* entry without a "file" key targets the issue's file.
C23_ReplyShapes ==
    [][ ReplyGiven =>
          LET reply == call.reply
              file_path == SelectedIssue.file
              implicit == << [file |-> file_path,
                              old_code |-> reply.flat.old_code,
                              new_code |-> reply.flat.new_code] >>
              listed == Targeted(reply.edits, file_path)
              Outcome(expected) ==
                  IF expected.ok
                  THEN last'.outcome = "applied" /\ temp_modified_files' = expected.files
                  ELSE last'.outcome \in {"failed_retry", "failed_final"}
          IN  /\ (reply.edits = <<>> /\ reply.flat.has_old /\ reply.flat.has_new) =>
                    Outcome(ExpectedCandidate(implicit, 1, file_path))
              /\ (reply.edits # <<>> /\ reply.flat.has_old) =>
                    Outcome(ExpectedCandidate(listed, Len(listed), file_path))
              /\ (last'.outcome = "applied" /\ reply.edits # <<>>
                    /\ \A i \in 1..Len(reply.edits) : reply.edits[i].file = AbsentKey) =>
                    DOMAIN temp_modified_files' = {file_path} ]_vars

C23_Witness ==
    /\ call.fn = "llm_reply"
    /\ call.reply.edits = <<>>
    /\ call.reply.flat.has_old /\ call.reply.flat.has_new
    /\ last.node = "apply"
    /\ last.outcome = "applied"
    /\ temp_modified_files = Put(EmptyMap, PyA, <<"a", "a", "b", "b">>)

\* C25: get_file_path returns what follows the first colon of the component,
\* later colons included, and the whole component when it has no colon.
HasColon(s) == \E i \in 1..Len(s) : s[i] = ":"

C25_FilePathAfterFirstColon ==
    ret.fn = "get_file_path" =>
        IF HasColon(call.component)
        THEN \E n \in 0..Len(call.component) - 1 :
                 /\ ~HasColon(SubSeq(call.component, 1, n))
                 /\ call.component =
                        SubSeq(call.component, 1, n) \o <<":">> \o ret.result
        ELSE ret.result = call.component

C25_Witness ==
    /\ ret.fn = "get_file_path"
    /\ call.component = <<"p", ":", "f", ":">>
    /\ ret.result = <<"f", ":">>

\* C26: fetch_issues_from_api returns at most limit issues, in the service's
\* order, none with a rule starting with "external_"; a page is requested only
\* while fewer than limit issues are collected, a further page only after a
\* page that had issues and did not reach the reported total; the loop ends;
\* a request error exits with status 1 and returns no list.
NotExternal(issue) == issue.rule[1] # "external_"

FetchStep ==
    /\ ret'.served # ret.served \/ ret'.response # ret.response
           => /\ Len(ret.filtered_issues) < call.limit
              /\ ret'.filtered_issues =
                     ret.filtered_issues \o SelectSeq(ret'.response.issues, NotExternal)
    /\ ret'.page # ret.page
           => /\ ret'.page = ret.page + 1
              /\ ret'.response.issues # <<>>
              /\ ret.page * page_size < ret'.response.total
              /\ ret'.at = "loop"
    /\ ret'.at = "returned"
           => \/ Len(ret'.filtered_issues) >= call.limit
              \/ ret.page * page_size >= ret'.response.total
              \/ ret'.response.issues = <<>>
    /\ ret'.at = "exited" => ret'.filtered_issues = ret.filtered_issues

FetchResult ==
    /\ ret.at = "returned"
           => /\ Len(ret.result) <= call.limit
              /\ \A i \in 1..Len(ret.result) :
                     /\ ret.result[i] = ret.filtered_issues[i]
                     /\ NotExternal(ret.result[i])
                     /\ \A j \in 1..Len(ret.result) :
                            i < j => ret.result[i].key < ret.result[j].key
              /\ Len(ret.result) < call.limit
                     => Len(ret.result) = Len(ret.filtered_issues)
    /\ ret.at = "exited" => ret.exit_code = 1 /\ ret.result = <<>>
    /\ ret.at = "loop" => ret.exit_code = 0 /\ ret.result = <<>>

FetchDone == ret.at \in {"returned", "exited"}

C26_FetchContract ==
    /\ [][FetchStep]_vars
    /\ []FetchResult
    /\ <>FetchDone

C26_Witness ==
    /\ ret.fn = "fetch_issues_from_api"
    /\ ret.at = "returned"
    /\ call.limit = 1
    /\ ret.page = 2
    /\ ret.served = 4
    /\ Len(ret.filtered_issues) = 2
    /\ ret.result = <<[key |-> 3, rule |-> <<"python:", "external_">>]>>

\* C27: the Validate step that follows a failed Apply step evaluates nothing:
\* it leaves retry_count, the two fix lists, current_issue_index, file_cache
\* and the disk as they are, whatever candidate an earlier attempt or an
\* earlier issue left in the scratch fields.
AfterFailedApply ==
    /\ pc = "validate"
    /\ last.node = "apply"
    /\ last.outcome \in {"failed_retry", "failed_final"}

C27_FailedApplySkipsValidate ==
    [][ AfterFailedApply =>
            /\ UNCHANGED <<retry_count, failed_fixes, successful_fixes,
                           current_issue_index, file_cache, disk>>
            /\ last'.outcome = "no_candidate" ]_vars

\* C28: a candidate is accepted for an issue, and a FixResult appended, only
\* in the Validate step that directly follows an Apply step for that issue
\* whose reply parsed and whose edits all applied, and the accepted candidate
\* is the one that step stashed.
AppliedJustBefore ==
    /\ last.node = "apply"
    /\ last.outcome = "applied"
    /\ last.issue = current_issue

Recorded == Len(successful_fixes) + Len(failed_fixes)

IsAppendOf(after, before) ==
    /\ Len(after) = Len(before) + 1
    /\ SubSeq(after, 1, Len(before)) = before

IndexStep ==
    /\ current_issue_index' # current_issue_index =>
          /\ current_issue_index' = current_issue_index + 1
          /\ \/ IsAppendOf(failed_fixes', failed_fixes)
                   /\ successful_fixes' = successful_fixes
             \/ IsAppendOf(successful_fixes', successful_fixes)
                   /\ failed_fixes' = failed_fixes
    /\ (failed_fixes' # failed_fixes \/ successful_fixes' # successful_fixes) =>
          current_issue_index' = current_issue_index + 1

C29_IndexCountsRecords ==
    /\ [](current_issue_index = Recorded)
    /\ [][IndexStep]_vars

C29_Witness ==
    /\ current_issue_index = 2
    /\ Len(failed_fixes) = 2
    /\ failed_fixes[1].issue_key # failed_fixes[2].issue_key

\* C30: routing goes from Validate to SelectNext only when current_issue_index
\* was advanced in that Apply/Validate round, so the index then lies past the
\* issue just processed and each selection takes a later issue than the one
\* before; routing goes from Validate back to Apply exactly when
\* retry_count < max_retries and the candidate was not accepted.
C30_NoReselection ==
    [][ /\ (pc = "validate" /\ pc' = "select_next") =>
              /\ last'.round_incs >= 1
              /\ current_issue_index' > current_issue
        /\ (pc = "validate" /\ pc' # "validate") =>
              (pc' = "apply" <=>
                  (retry_count' < max_retries /\ last'.outcome # "accepted"))
        /\ (pc = "select_next" /\ current_issue' # NoIssue) =>
              /\ current_issue' > current_issue
              /\ current_issue' = current_issue_index
      ]_vars

C30_Witness ==
    /\ pc = "analyze"
    /\ current_issue = 1
    /\ last.node = "select_next"
    /\ Len(failed_fixes) = 1
    /\ failed_fixes[1].issue_key = issues[1].key
    /\ validation_passed = FALSE

\* C31: the iterations field of a record is the number of Apply steps made
\* for its issue when it is appended; for max_retries >= 1 a FailedFix never
\* carries more than max_retries; a FixResult carries the number of the
\* accepted attempt.
C31_IterationsCountApplySteps ==
    [][ /\ Len(failed_fixes') > Len(failed_fixes) =>
              LET record == failed_fixes'[Len(failed_fixes')]
              IN  /\ record.iterations = hist'.applies
                  /\ max_retries >= 1 => record.iterations <= max_retries
        /\ Len(successful_fixes') > Len(successful_fixes) =>
              successful_fixes'[Len(successful_fixes')].iterations = hist'.applies
      ]_vars

\* C32: outside dry-run mode every file_cache entry holds the content the
\* file has on disk, at every step boundary; the cache takes a candidate only
\* when every touched file was written.
C32_CacheMatchesDisk ==
    ~dry_run =>
        \A f \in DOMAIN file_cache : f \in DOMAIN disk /\ file_cache[f] = disk[f]

\* C33: generate_diff_stats returns as additions and deletions the numbers of
\* added and removed lines of the diff, whatever the lines begin with;
\* total_changes is their sum; equal texts give 0 and 0.
C33_EveryChangedLineCounted ==
    ret.fn = "generate_diff_stats" =>
        /\ ret.result.additions = marked(ret.script, "+")
        /\ ret.result.deletions = marked(ret.script, "-")
        /\ ret.result.total_changes = ret.result.additions + ret.result.deletions
        /\ call.original = call.modified =>
               ret.result.additions = 0 /\ ret.result.deletions = 0

\* C34: on an empty issue list SelectNext routes to Finalize without
\* selecting, and Finalize appends its summary and ends the run without
\* error, whatever the number of issues.
C34_FinalizeSummarises ==
    [][ /\ (pc = "select_next" /\ Len(issues) = 0) =>
              pc' = "finalize" /\ current_issue' = NoIssue
        /\ pc = "finalize" =>
              /\ pc' = "done"
              /\ messages' = Append(messages, Msg("summary", NoIssue)) ]_vars

\* C35: a touched file whose extension maps to no language is not parsed: a
\* rejection at the syntax gate always comes from a touched file of a known
\* language, and a candidate that touches only files of unknown extension is
\* decided by the change-size check.
KnownLanguage(path) == path.ext \in DOMAIN extension_map

C35_UnknownExtensionUnchecked ==
    (last.node = "validate" /\ last.outcome # "no_candidate") =>
        /\ last.outcome = "syntax" =>
               \E path \in DOMAIN temp_modified_files :
                   KnownLanguage(path) /\ HasErrorLine(temp_modified_files[path])
        /\ (\A path \in DOMAIN temp_modified_files : ~KnownLanguage(path)) =>
               last.outcome \in {"size", "accepted"}

C35_Witness ==
    /\ last.node = "validate"
    /\ last.outcome = "size"
    /\ ~last.stale
    /\ DOMAIN temp_modified_files = {TxtN}
    /\ HasErrorLine(temp_modified_files[TxtN])

\* C36: a reply with an edit whose old_code or new_code is empty fails the
\* Apply attempt as a recoverable error: retry_count goes up by one, and the
\* candidate map, the cache and the disk keep their contents.
C36_EmptyCodeFailsAttempt ==
    [][ (pc = "apply" /\ call.fn = "llm_reply" /\ call.reply \in EmptyCodeReplies) =>
            /\ last'.node = "apply"
            /\ last'.outcome \in {"failed_retry", "failed_final"}
            /\ retry_count' = retry_count + 1
            /\ pc' = "validate"
            /\ UNCHANGED <<temp_modified_files, file_cache, disk>> ]_vars

\* C37: batch_issues_by_file returns a permutation of its input, keeps the
\* input order of issues that have the same file and the same line key (no
\* line and line 0 share the key 0), and returns a batched list unchanged.
LineKey(issue) == IF issue.line = NoLine \/ issue.line = 0 THEN 0 ELSE issue.line

PlaceIn(list, issue) == CHOOSE k \in 1..Len(list) : list[k] = issue

C37_BatchStablePermutation ==
    /\ ret.fn \in {"batch_issues_by_file", "batch_issues_again"} =>
          LET feed == IF ret.fn = "batch_issues_again" THEN ret.first ELSE call.issues
              batched == ret.result
          IN  /\ Len(batched) = Len(feed)
              /\ \A i \in 1..Len(feed) :
                     Cardinality({j \in 1..Len(batched) : batched[j] = feed[i]}) = 1
              /\ \A i \in 1..Len(feed) : \A j \in (i + 1)..Len(feed) :
                     (feed[i].file = feed[j].file /\ LineKey(feed[i]) = LineKey(feed[j]))
                         => PlaceIn(batched, feed[i]) < PlaceIn(batched, feed[j])
    /\ ret.fn = "batch_issues_again" => ret.result = ret.first

C37_Witness ==
    /\ ret.fn = "batch_issues_again"
    /\ [i \in 1..Len(call.issues) |-> Located(call.issues[i])]
           = << <<PyA, NoLine>>, <<PyB, 5>>, <<PyA, 0>> >>
    /\ [i \in 1..Len(ret.result) |-> Located(ret.result[i])]
           = << <<PyA, NoLine>>, <<PyA, 0>>, <<PyB, 5>> >>

\* C38: for a position inside the source, the node locate_issue returns has
\* a span that contains the position (the line within its lines, the column
\* within its columns on its first and last line), and no child of it has
\* such a span.
SpanContains(node, row, column) ==
    /\ \/ node.start_point[1] < row
       \/ node.start_point[1] = row /\ node.start_point[2] <= column
    /\ \/ row < node.end_point[1]
       \/ row = node.end_point[1] /\ column <= node.end_point[2]

\* The position is a character of a token (a node without children).
InsideToken(tree, row, column) ==
    \E n \in 1..Len(tree) :
        /\ children(tree, n) = {}
        /\ SpanContains(tree[n], row, column)
        /\ ~(row = tree[n].end_point[1] /\ column = tree[n].end_point[2])

C38_DeepestContainingNode ==
    (ret.fn = "locate_issue" /\ InsideToken(call.tree, call.line - 1, call.column)) =>
        LET located == call.tree[ret.result.node]
        IN  /\ ret.result.start_line <= call.line
            /\ call.line <= ret.result.end_line
            /\ SpanContains(located, call.line - 1, call.column)
            /\ \A c \in children(call.tree, ret.result.node) :
                   ~SpanContains(call.tree[c], call.line - 1, call.column)

\* C39: the cross-references of Analyze are at most 5 and none of them is a
\* match in the issue's own file, with the ripgrep backend and with the grep
\* fallback.
C39_CrossRefsOutsideOwnFile ==
    ret.fn = "cross_refs" =>
        /\ Len(ret.result) <= 5
        /\ \A i \in 1..Len(ret.result) : ret.result[i].match.file # call.file_path

====
